---------------------------- MODULE Spec2Model ----------------------------
(***************************************************************************)
(* A model of the HAR API reverse engineer backend                         *)
(* (bilalaijaz12/har-api-reverse-engineer, src/backend).                   *)
(*                                                                         *)
(* Python strings are TLA+ strings; TLC evaluates Len, \o and SubSeq on    *)
(* them, so substring tests, str.lower() and the regular expressions of    *)
(* the source are computed character by character.  A Python dict is a     *)
(* function whose domain is its key set; dict.get(k) is an option: <<>>    *)
(* for None, <<v>> for a value.  A Python exception is a record            *)
(* [exc |-> name].                                                         *)
(***************************************************************************)
EXTENDS Integers, Sequences, FiniteSets, TLC

VARIABLES
    request,          \* the HTTP request being handled (upload or analyze)
    session_storage,  \* utils/storage.py: session id -> {"processed_har": [...]}
    response,         \* the handler's HTTP response, NoResponse until it ran
    api_requests,     \* argument of the llm_service function under study
    description,      \* the user's free-text description
    result,           \* what the llm_service function returned or raised
    llm_reply,        \* what the reasoning collaborator answers to each prompt
    llm_calls         \* number of openai.chat.completions.create calls issued

vars == <<request, session_storage, response, api_requests, description,
          result, llm_reply, llm_calls>>

-----------------------------------------------------------------------------
(* Bounds of the model.                                                     *)

MaxLog == 3            \* entries in an uploaded log (diverse entry pool)
MaxGateLog == 6        \* entries in a log handed to the relevance gate
MaxSelectLog == 2      \* entries in a log handed to the selector
MaxSessions == 1       \* sessions the store may hold
MaxBudgetLog == 3      \* entries in a log whose candidates are budgeted
MaxCaptures == 2       \* captures uploaded before and between analyses
MaxReduceLog == 2      \* entries in a log whose candidates are reduced

-----------------------------------------------------------------------------
(* Python str operations.                                                   *)

CharAt(s, i) == SubSeq(s, i, i)

\* `p in s`
Contains(s, p) ==
    \E i \in 1..(Len(s) - Len(p) + 1) : SubSeq(s, i, i + Len(p) - 1) = p

\* s.endswith(p)
EndsWith(s, p) ==
    /\ Len(s) >= Len(p)
    /\ SubSeq(s, Len(s) - Len(p) + 1, Len(s)) = p

\* s.startswith(p)
StartsWith(s, p) ==
    /\ Len(s) >= Len(p)
    /\ SubSeq(s, 1, Len(p)) = p

\* smallest index at which p occurs in s, 0 when it does not (str.find + 1)
Find(s, p) ==
    IF Contains(s, p)
    THEN CHOOSE i \in 1..(Len(s) - Len(p) + 1) :
            /\ SubSeq(s, i, i + Len(p) - 1) = p
            /\ \A k \in 1..(i - 1) : SubSeq(s, k, k + Len(p) - 1) # p
    ELSE 0

UpperLetters == "ABCDEFGHIJKLMNOPQRSTUVWXYZ"
LowerLetters == "abcdefghijklmnopqrstuvwxyz"
Digits == {"0", "1", "2", "3", "4", "5", "6", "7", "8", "9"}

LowerChar(c) ==
    IF Contains(UpperLetters, c) /\ Len(c) = 1
    THEN CharAt(LowerLetters, Find(UpperLetters, c))
    ELSE c

UpperChar(c) ==
    IF Contains(LowerLetters, c) /\ Len(c) = 1
    THEN CharAt(UpperLetters, Find(LowerLetters, c))
    ELSE c

RECURSIVE lower(_)
\* s.lower()
lower(s) ==
    IF s = "" THEN "" ELSE LowerChar(CharAt(s, 1)) \o lower(SubSeq(s, 2, Len(s)))

RECURSIVE upper(_)
\* s.upper()
upper(s) ==
    IF s = "" THEN "" ELSE UpperChar(CharAt(s, 1)) \o upper(SubSeq(s, 2, Len(s)))

Whitespace == {" ", "\n", "\t", "\r"}

RECURSIVE lstrip(_)
lstrip(s) ==
    IF s # "" /\ CharAt(s, 1) \in Whitespace
    THEN lstrip(SubSeq(s, 2, Len(s))) ELSE s

RECURSIVE rstrip(_)
rstrip(s) ==
    IF s # "" /\ CharAt(s, Len(s)) \in Whitespace
    THEN rstrip(SubSeq(s, 1, Len(s) - 1)) ELSE s

\* s.strip()
strip(s) == rstrip(lstrip(s))

-----------------------------------------------------------------------------
(* Options and dicts.                                                       *)

None == <<>>
Some(v) == <<v>>

\* d.get(k)
Get(d, k) == IF k \in DOMAIN d THEN Some(d[k]) ELSE None

\* d.get(k, default)
GetOr(d, k, default) == IF k \in DOMAIN d THEN d[k] ELSE default

EmptyDict == [k \in {} |-> ""]

\* {p['name']: p['value'] for p in pairs}: a later pair overwrites an earlier
\* one of the same name
DictOfPairs(pairs) ==
    [n \in {pairs[i].name : i \in DOMAIN pairs} |->
        LET last == CHOOSE i \in DOMAIN pairs :
                        /\ pairs[i].name = n
                        /\ \A j \in DOMAIN pairs : pairs[j].name = n => j <= i
        IN pairs[last].value]

-----------------------------------------------------------------------------
(* json.loads on the JSON subset the logs and the collaborator use: objects,*)
(* arrays, strings without escapes, numbers -?d+(.d+)?, true, false, null.  *)
(* A parsed value is tagged with its Python type: [t |-> "dict", v |-> f],  *)
(* [t |-> "list", v |-> seq], [t |-> "str", v |-> s], [t |-> "num",         *)
(* v |-> [n |-> numerator, d |-> denominator]], [t |-> "bool", v |-> b],    *)
(* [t |-> "null", v |-> 0].  A dict also carries keys, its keys in insertion *)
(* order.                                                                   *)

RECURSIVE SkipWs(_, _)
SkipWs(s, i) ==
    IF i <= Len(s) /\ CharAt(s, i) \in Whitespace THEN SkipWs(s, i + 1) ELSE i

RECURSIVE DigitsEnd(_, _)
\* first index at or after i that holds no digit
DigitsEnd(s, i) ==
    IF i <= Len(s) /\ CharAt(s, i) \in Digits THEN DigitsEnd(s, i + 1) ELSE i

DigitVal(c) == Find("0123456789", c) - 1

RECURSIVE StrToNat(_)
StrToNat(s) ==
    IF s = "" THEN 0
    ELSE 10 * StrToNat(SubSeq(s, 1, Len(s) - 1)) + DigitVal(CharAt(s, Len(s)))

RECURSIVE Pow10(_)
Pow10(k) == IF k = 0 THEN 1 ELSE 10 * Pow10(k - 1)

\* float("d.ddd") and int("ddd") as an exact fraction
Decimal(intpart, fracpart) ==
    [n |-> StrToNat(intpart) * Pow10(Len(fracpart)) + StrToNat(fracpart),
     d |-> Pow10(Len(fracpart))]

ParseFail == [ok |-> FALSE, val |-> [t |-> "null", v |-> 0], pos |-> 0]
ParseOk(val, pos) == [ok |-> TRUE, val |-> val, pos |-> pos]

ParseString(s, i) ==
    \* s[i] is the opening quote
    LET rest == SubSeq(s, i + 1, Len(s))
        close == Find(rest, "\"")
    IN IF close = 0 \/ Contains(SubSeq(rest, 1, close - 1), "\\")
       THEN ParseFail
       ELSE ParseOk([t |-> "str", v |-> SubSeq(rest, 1, close - 1)], i + close + 1)

ParseNumber(s, i) ==
    LET neg == CharAt(s, i) = "-"
        a == IF neg THEN i + 1 ELSE i
        b == IF a <= Len(s) /\ CharAt(s, a) = "0" THEN a + 1 ELSE DigitsEnd(s, a)
        hasFrac == b <= Len(s) /\ CharAt(s, b) = "." /\ DigitsEnd(s, b + 1) > b + 1
        c == IF hasFrac THEN DigitsEnd(s, b + 1) ELSE b
        q == Decimal(SubSeq(s, a, b - 1),
                     IF hasFrac THEN SubSeq(s, b + 1, c - 1) ELSE "")
    IN IF b = a THEN ParseFail
       ELSE ParseOk([t |-> "num",
                     v |-> [n |-> IF neg THEN 0 - q.n ELSE q.n, d |-> q.d]], c)

EmptyObject == [t |-> "dict", v |-> EmptyDict, keys |-> <<>>]

\* d[k] = val on a parsed dict: a new key goes last, an old one keeps its place
DictSet(d, k, val) ==
    [t |-> "dict",
     v |-> [x \in DOMAIN d.v \cup {k} |-> IF x = k THEN val ELSE d.v[x]],
     keys |-> IF k \in DOMAIN d.v THEN d.keys ELSE Append(d.keys, k)]

RECURSIVE ParseValue(_, _), ParseMembers(_, _, _), ParseElements(_, _, _)

\* the members of an object after its "{" or after a ","; acc is the dict so far
ParseMembers(s, i, acc) ==
    LET k0 == SkipWs(s, i)
        key == IF k0 <= Len(s) /\ CharAt(s, k0) = "\"" THEN ParseString(s, k0)
               ELSE ParseFail
        colon == SkipWs(s, key.pos)
        val == IF key.ok /\ colon <= Len(s) /\ CharAt(s, colon) = ":"
               THEN ParseValue(s, colon + 1) ELSE ParseFail
        nxt == SkipWs(s, val.pos)
    IN IF ~val.ok \/ nxt > Len(s) THEN ParseFail
       ELSE IF CharAt(s, nxt) = ","
            THEN ParseMembers(s, nxt + 1, DictSet(acc, key.val.v, val.val))
       ELSE IF CharAt(s, nxt) = "}"
            THEN ParseOk(DictSet(acc, key.val.v, val.val), nxt + 1)
       ELSE ParseFail

\* the elements of an array after its "[" or after a ","; acc is the list so far
ParseElements(s, i, acc) ==
    LET val == ParseValue(s, i)
        nxt == SkipWs(s, val.pos)
    IN IF ~val.ok \/ nxt > Len(s) THEN ParseFail
       ELSE IF CharAt(s, nxt) = ","
            THEN ParseElements(s, nxt + 1, Append(acc, val.val))
       ELSE IF CharAt(s, nxt) = "]"
            THEN ParseOk([t |-> "list", v |-> Append(acc, val.val)], nxt + 1)
       ELSE ParseFail

ParseValue(s, i) ==
    LET j == SkipWs(s, i)
        c == IF j <= Len(s) THEN CharAt(s, j) ELSE ""
        after == SkipWs(s, j + 1)
    IN IF c = "{"
       THEN IF after <= Len(s) /\ CharAt(s, after) = "}"
            THEN ParseOk(EmptyObject, after + 1)
            ELSE ParseMembers(s, j + 1, EmptyObject)
       ELSE IF c = "["
       THEN IF after <= Len(s) /\ CharAt(s, after) = "]"
            THEN ParseOk([t |-> "list", v |-> <<>>], after + 1)
            ELSE ParseElements(s, j + 1, <<>>)
       ELSE IF c = "\"" THEN ParseString(s, j)
       ELSE IF c \in Digits \cup {"-"} THEN ParseNumber(s, j)
       ELSE IF j + 3 <= Len(s) /\ SubSeq(s, j, j + 3) = "true"
            THEN ParseOk([t |-> "bool", v |-> TRUE], j + 4)
       ELSE IF j + 4 <= Len(s) /\ SubSeq(s, j, j + 4) = "false"
            THEN ParseOk([t |-> "bool", v |-> FALSE], j + 5)
       ELSE IF j + 3 <= Len(s) /\ SubSeq(s, j, j + 3) = "null"
            THEN ParseOk([t |-> "null", v |-> 0], j + 4)
       ELSE ParseFail

\* json.loads(text): [ok |-> TRUE, val |-> value], or ok = FALSE for
\* json.JSONDecodeError (also raised for data after the value)
WholeText(text, r) ==
    IF r.ok /\ SkipWs(text, r.pos) = Len(text) + 1
    THEN [ok |-> TRUE, val |-> r.val]
    ELSE [ok |-> FALSE, val |-> ParseFail.val]

json_loads(text) == WholeText(text, ParseValue(text, 1))

-----------------------------------------------------------------------------
(* json.dumps and str() of a parsed value, and the Python object it is.     *)

RECURSIVE NatToStr(_)
NatToStr(n) ==
    IF n < 10 THEN CharAt("0123456789", n + 1)
    ELSE NatToStr(n \div 10) \o CharAt("0123456789", (n % 10) + 1)

RECURSIVE StripZeros(_)
\* the digits of a fraction without trailing zeros, one digit at least
StripZeros(frac) ==
    IF Len(frac) > 1 /\ CharAt(frac, Len(frac)) = "0"
    THEN StripZeros(SubSeq(frac, 1, Len(frac) - 1)) ELSE frac

RECURSIVE PadZeros(_, _)
PadZeros(digits, width) ==
    IF Len(digits) < width THEN PadZeros("0" \o digits, width) ELSE digits

\* repr of an int (d = 1) or of a float written with Len(d) - 1 decimals
NumRepr(q) ==
    LET a == IF q.n < 0 THEN 0 - q.n ELSE q.n
        sign == IF q.n < 0 THEN "-" ELSE ""
    IN IF q.d = 1 THEN sign \o NatToStr(a)
       ELSE sign \o NatToStr(a \div q.d) \o "."
            \o StripZeros(PadZeros(NatToStr(a % q.d), Len(NatToStr(q.d)) - 1))

RECURSIVE Join(_, _)
\* sep.join(parts)
Join(parts, sep) ==
    IF parts = <<>> THEN ""
    ELSE IF Len(parts) = 1 THEN parts[1]
    ELSE parts[1] \o sep \o Join(Tail(parts), sep)

RECURSIVE Render(_, _)
\* json.dumps(val) for style "json", str(val) for style "python"
Render(val, style) ==
    IF val.t = "str"
    THEN IF style = "json" THEN "\"" \o val.v \o "\""
         ELSE IF Contains(val.v, "'") /\ ~Contains(val.v, "\"")
              THEN "\"" \o val.v \o "\"" ELSE "'" \o val.v \o "'"
    ELSE IF val.t = "num" THEN NumRepr(val.v)
    ELSE IF val.t = "bool"
    THEN IF style = "json" THEN (IF val.v THEN "true" ELSE "false")
         ELSE (IF val.v THEN "True" ELSE "False")
    ELSE IF val.t = "null" THEN (IF style = "json" THEN "null" ELSE "None")
    ELSE IF val.t = "list"
    THEN "[" \o Join([i \in DOMAIN val.v |-> Render(val.v[i], style)], ", ") \o "]"
    ELSE "{" \o Join([i \in DOMAIN val.keys |->
                        Render([t |-> "str", v |-> val.keys[i]], style) \o ": "
                        \o Render(val.v[val.keys[i]], style)], ", ") \o "}"

json_dumps(val) == Render(val, "json")

\* str(obj) of a parsed object
str(val) == Render(val, "python")

PyNone == [py_none |-> TRUE]

RECURSIVE Native(_)
\* the Python object a parsed value is: a dict is a function on its keys, a
\* list a sequence, a str a string, an int an integer
Native(val) ==
    IF val.t = "dict" THEN [k \in DOMAIN val.v |-> Native(val.v[k])]
    ELSE IF val.t = "list" THEN [i \in DOMAIN val.v |-> Native(val.v[i])]
    ELSE IF val.t = "num"
    THEN IF val.v.d = 1 THEN val.v.n ELSE [float |-> val.v]
    ELSE IF val.t = "null" THEN PyNone
    ELSE val.v

-----------------------------------------------------------------------------
(* utils/har_processor.py: process_har_file.                                *)
(*                                                                         *)
(* A log entry is the dict of the HAR document: [request |-> [method, url,  *)
(* headers, queryString (, postData)], response |-> [status, headers        *)
(* (, content)]], header lists being sequences of [name, value].            *)

\* the value of the first response header named content-type (any case),
\* None when there is none
ContentTypeOf(resp) ==
    LET hs == GetOr(resp, "headers", <<>>)
        hits == {i \in DOMAIN hs : lower(hs[i].name) = "content-type"}
    IN IF hits = {} THEN None
       ELSE Some(hs[CHOOSE i \in hits : \A j \in hits : i <= j].value)

is_api_endpoint(url) ==
    \/ Contains(url, "/api/")
    \/ Contains(url, "api.")
    \/ Contains(url, "/graphql")
    \/ Contains(url, "/v1/")
    \/ Contains(url, "/v2/")
    \/ Contains(url, "/rest/")
    \/ Contains(url, ".json")

\* a scoring rule that reuses the classifier's marker set
ScoringMarkerAnyMarker(url) == is_api_endpoint(url)

\* `if '/api/' in url or '.api.' in url`, the +10 rule of the score
ScoringMarker(url) == Contains(url, "/api/") \/ Contains(url, ".api.")

\* re.match in place of re.search: the pattern anchored at the start
is_data_resource_anchored(url) ==
    \E j \in 8..(Len(url) - 1) :
        /\ SubSeq(url, 1, 6) = "/data/"
        /\ \A k \in 7..(j - 1) : CharAt(url, k) # "/"
        /\ CharAt(url, j) = "/"
        /\ CharAt(url, j + 1) \notin {"/", "?", "&"}

\* re.search(r'/data/[^/]+/[^/?&]+', url)
is_data_resource(url) ==
    \E i \in 1..Len(url) : \E j \in (i + 7)..(Len(url) - 1) :
        /\ SubSeq(url, i, i + 5) = "/data/"
        /\ \A k \in (i + 6)..(j - 1) : CharAt(url, k) # "/"
        /\ CharAt(url, j) = "/"
        /\ CharAt(url, j + 1) \notin {"/", "?", "&"}

\* re.search(r'/[^/]+/[^/?&]+$', url) (no URL of the model ends in a newline)
entity_path_match(url) ==
    \E i \in 1..Len(url) : \E j \in (i + 2)..(Len(url) - 1) :
        /\ CharAt(url, i) = "/"
        /\ \A k \in (i + 1)..(j - 1) : CharAt(url, k) # "/"
        /\ CharAt(url, j) = "/"
        /\ \A k \in (j + 1)..Len(url) : CharAt(url, k) \notin {"/", "?", "&"}

StaticExtensions == {".js", ".css", ".jpg", ".png", ".gif"}

is_entity_resource(url) ==
    entity_path_match(url) /\ ~\E x \in StaticExtensions : EndsWith(url, x)

AnyFlag(url) ==
    is_api_endpoint(url) \/ is_data_resource(url) \/ is_entity_resource(url)

\* the two `continue` statements after the content type is known
SkippedAsPage(url, content_type) ==
    \/ Contains(lower(content_type), "text/html") /\ ~AnyFlag(url)
    \/ /\ ~AnyFlag(url)
       /\ \E asset_type \in {"image/", "font/", "text/css"} :
              Contains(lower(content_type), asset_type)

is_json(content_type) == Contains(lower(content_type), "json")

is_javascript(url, content_type) ==
    Contains(lower(content_type), "javascript") \/ EndsWith(url, ".js")

is_xhr(method, url, content_type) ==
    \/ method # "GET"
    \/ is_json(content_type)
    \/ Contains(lower(content_type), "application/octet-stream")
    \/ is_api_endpoint(url)

relevance_score(method, url, content_type) ==
      (IF is_data_resource(url) THEN 15 ELSE 0)
    + (IF is_entity_resource(url) THEN 12 ELSE 0)
    + (IF ScoringMarker(url) THEN 10 ELSE 0)
    + (IF Contains(url, "/data/") \/ Contains(url, "/common/") THEN 8 ELSE 0)
    + (IF is_json(content_type) THEN 5 ELSE 0)
    - (IF is_javascript(url, content_type) THEN 5 ELSE 0)
    + (IF method # "GET" THEN 3 ELSE 0)

\* a loop that appends every entry the two `continue` statements let through
IncludedUntested(method, url, content_type) == TRUE

\* the final `if` that decides whether the request is appended
Included(method, url, content_type) ==
    \/ is_xhr(method, url, content_type)
    \/ is_data_resource(url)
    \/ is_entity_resource(url)
    \/ Contains(url, "/data/")

\* `if content_type is None: continue`
NoContentTypeIsNone(ct) == ct = None

\* `if not content_type: continue`
NoContentType(ct) == ct = None \/ ct[1] = ""

ResponseCap == 2000
TruncationMarker == "... [truncated]"

\* api_request['body'], built from request['postData']
BodyWith(post_data, parsed) ==
    LET mime == GetOr(post_data, "mimeType", "")
        text == GetOr(post_data, "text", "")
        base == [mime_type |-> mime,
                 text |-> text,
                 params |-> IF "params" \in DOMAIN post_data
                            THEN [i \in DOMAIN post_data.params |->
                                     [name |-> GetOr(post_data.params[i], "name", ""),
                                      value |-> GetOr(post_data.params[i], "value", "")]]
                            ELSE <<>>]
    IN IF Contains(lower(mime), "application/json")
       THEN IF parsed.ok
            THEN base @@ [parsed_json |-> Native(parsed.val), format |-> "json"]
            ELSE base @@ [format |-> "text"]
       ELSE IF Contains(lower(mime), "form")
            THEN base @@ [format |-> "form"]
            ELSE base @@ [format |-> "text"]

BodyOf(post_data) ==
    BodyWith(post_data, json_loads(GetOr(post_data, "text", "{}")))

\* response_parsed, when the stored text parses and the type is JSON
ResponseParsed(content_type, parsed) ==
    IF Contains(lower(content_type), "application/json") /\ parsed.ok
    THEN [response_parsed |-> Native(parsed.val)] ELSE EmptyDict

\* response_body: the text, cut at ResponseCap characters
ResponseBody(full) ==
    IF Len(full) > ResponseCap
    THEN SubSeq(full, 1, ResponseCap) \o TruncationMarker
    ELSE full

\* the response_body and response_parsed keys, when the response has a text
ResponseKeys(resp, content_type) ==
    IF "content" \in DOMAIN resp /\ "text" \in DOMAIN resp.content
    THEN [response_body |-> ResponseBody(resp.content.text)]
         @@ ResponseParsed(content_type,
                           json_loads(ResponseBody(resp.content.text)))
    ELSE EmptyDict

\* the api_request dict built for an accepted entry
ApiRequestOf(entry) ==
    LET req == GetOr(entry, "request", EmptyDict)
        resp == GetOr(entry, "response", EmptyDict)
        content_type == ContentTypeOf(resp)[1]
        method == GetOr(req, "method", "")
        url == GetOr(req, "url", "")
    IN [method |-> req.method,
        url |-> req.url,
        headers |-> DictOfPairs(GetOr(req, "headers", <<>>)),
        query_params |-> DictOfPairs(GetOr(req, "queryString", <<>>)),
        response_status |-> resp.status,
        response_content_type |-> content_type,
        relevance_score |-> relevance_score(method, url, content_type)]
       @@ (IF "postData" \in DOMAIN req
           THEN [body |-> BodyOf(req.postData)] ELSE EmptyDict)
       @@ ResponseKeys(resp, content_type)

\* one iteration of the loop over the entries: does it reach the append?
Accepted(entry) ==
    LET req == GetOr(entry, "request", EmptyDict)
        resp == GetOr(entry, "response", EmptyDict)
        ct == ContentTypeOf(resp)
        method == GetOr(req, "method", "")
        url == GetOr(req, "url", "")
    IN /\ ~NoContentType(ct)
       /\ ~SkippedAsPage(url, ct[1])
       /\ Included(method, url, ct[1])

RECURSIVE Collect(_)
\* the api_requests list after the loop, in log order
Collect(entries) ==
    IF entries = <<>> THEN <<>>
    ELSE (IF Accepted(Head(entries)) THEN <<ApiRequestOf(Head(entries))>> ELSE <<>>)
         \o Collect(Tail(entries))

\* an insertion that puts x before the elements of equal score
InsertReversedUnstable(sorted, x) ==
    LET before == {i \in DOMAIN sorted :
                      GetOr(sorted[i], "relevance_score", 0)
                          > GetOr(x, "relevance_score", 0)}
        n == Cardinality(before)
    IN SubSeq(sorted, 1, n) \o <<x>> \o SubSeq(sorted, n + 1, Len(sorted))

\* list.insert so that the list stays sorted by descending score and x goes
\* after every element whose score is not smaller
InsertReversed(sorted, x) ==
    LET before == {i \in DOMAIN sorted :
                      GetOr(sorted[i], "relevance_score", 0)
                          >= GetOr(x, "relevance_score", 0)}
        n == Cardinality(before)
    IN SubSeq(sorted, 1, n) \o <<x>> \o SubSeq(sorted, n + 1, Len(sorted))

RECURSIVE SortedByScore(_)
\* sorted(api_requests, key=lambda x: x.get('relevance_score', 0), reverse=True)
SortedByScore(list) ==
    IF list = <<>> THEN <<>>
    ELSE InsertReversed(SortedByScore(SubSeq(list, 1, Len(list) - 1)),
                        list[Len(list)])

\* content is the uploaded byte string: utf8 says whether it decodes, doc is
\* what json.loads makes of the decoded text (ok = FALSE: not JSON).
\* Returns [exc |-> "none", value |-> list, classified |-> entries looked at]
\* or the exception raised.
Raise(name) == [exc |-> name, value |-> <<>>, classified |-> 0]

process_har_file(content) ==
    IF ~content.utf8 THEN Raise("UnicodeDecodeError")
    ELSE IF ~content.doc.ok THEN Raise("JSONDecodeError")
    ELSE LET har_data == content.doc.val
             log == GetOr(har_data.v, "log", [t |-> "dict", v |-> EmptyDict])
             entries == GetOr(log.v, "entries", [t |-> "list", v |-> <<>>])
         IN IF har_data.t # "dict" THEN Raise("AttributeError")
            ELSE IF log.t # "dict" THEN Raise("AttributeError")
            ELSE IF entries.t \in {"str", "dict"} /\ entries.v # ""
                 THEN Raise("AttributeError")   \* entry.get on a str
            ELSE IF entries.t \in {"num", "bool", "null"}
                 THEN Raise("TypeError")        \* not iterable
            ELSE [exc |-> "none",
                  value |-> IF entries.t = "list"
                            THEN SortedByScore(Collect(entries.v)) ELSE <<>>,
                  classified |-> IF entries.t = "list" THEN Len(entries.v) ELSE 0]

-----------------------------------------------------------------------------
(* routes/upload.py: upload_har.                                            *)

SessionIds == 1..MaxSessions

NoResponse == [status |-> 0]
NoResult == [exc |-> "idle", value |-> <<>>, classified |-> 0]

\* an upload that turns a capture without candidates away
UploadOutcomeRejectsEmpty(processed_data, store, session_id) ==
    IF processed_data.exc = "none" /\ processed_data.value # <<>>
    THEN [response |-> [status |-> 200,
                        session_id |-> session_id,
                        message |-> "HAR file processed successfully",
                        api_count |-> Len(processed_data.value)],
          store |-> [k \in DOMAIN store \cup {session_id} |->
                        IF k = session_id
                        THEN [processed_har |-> processed_data.value]
                        ELSE store[k]],
          processed |-> processed_data]
    ELSE [response |-> [status |-> 400, detail |-> "No API requests found"],
          store |-> store, processed |-> processed_data]

\* the handler's response and the store it leaves, for a request
\* [filename, content] and the uuid4 it draws
\* the try block once process_har_file has returned or raised
UploadOutcome(processed_data, store, session_id) ==
            IF processed_data.exc = "none"
            THEN [response |-> [status |-> 200,
                                session_id |-> session_id,
                                message |-> "HAR file processed successfully",
                                api_count |-> Len(processed_data.value)],
                  store |-> [k \in DOMAIN store \cup {session_id} |->
                                IF k = session_id
                                THEN [processed_har |-> processed_data.value]
                                ELSE store[k]],
                  processed |-> processed_data]
            ELSE IF processed_data.exc = "JSONDecodeError"
            THEN [response |-> [status |-> 400,
                                detail |-> "Invalid HAR file format. Cannot parse JSON."],
                  store |-> store, processed |-> processed_data]
            ELSE [response |-> [status |-> 500,
                                detail |-> "Error processing HAR file: "
                                              \o processed_data.exc],
                  store |-> store, processed |-> processed_data]

\* a handler without the test of the file name
upload_har_any_name(req, store, session_id) ==
    UploadOutcome(process_har_file(req.content), store, session_id)

upload_har(req, store, session_id) ==
    IF ~EndsWith(req.filename, ".har")
    THEN [response |-> [status |-> 400, detail |-> "File must be a .har file"],
          store |-> store, processed |-> NoResult]
    ELSE UploadOutcome(process_har_file(req.content), store, session_id)

-----------------------------------------------------------------------------
(* The uploads of the model.                                                *)

Header(name, value) == [name |-> name, value |-> value]

Entry(method, url, response_headers) ==
    [request |-> [method |-> method, url |-> url,
                  headers |-> <<Header("Accept", "*/*")>>,
                  queryString |-> <<>>],
     response |-> [status |-> 200, headers |-> response_headers]]

EntryWithBody(method, url, response_headers, mime, text) ==
    [request |-> [method |-> method, url |-> url,
                  headers |-> <<Header("Accept", "*/*")>>,
                  queryString |-> <<>>,
                  postData |-> [mimeType |-> mime, text |-> text]],
     response |-> [status |-> 200, headers |-> response_headers,
                   content |-> [text |-> "{\"ok\": true}"]]]

ScenarioEntry ==
    Entry("GET", "https://x.com/api/data/items/42",
          <<Header("Content-Type", "application/json")>>)

EntryPool ==
    { ScenarioEntry,
      \* a versioned endpoint on an api. host, query string last
      Entry("GET", "http://api.h/v1/x?q=1",
            <<Header("content-type", "application/json")>>),
      \* a script served under /api/
      Entry("GET", "http://h/api/a.js",
            <<Header("Content-Type", "application/javascript")>>),
      \* a non-GET request with a body
      EntryWithBody("POST", "http://h/graphql?q=1",
                    <<Header("Content-Type", "text/plain")>>,
                    "application/json", "{\"id\": 42}"),
      \* no content-type header at all
      Entry("GET", "http://h/x", <<Header("X-Powered-By", "h")>>),
      \* a content-type header with an empty value
      Entry("POST", "http://h/api/x", <<Header("Content-Type", "")>>),
      \* an HTML page with no URL flag
      Entry("GET", "http://h/", <<Header("Content-Type", "text/html")>>),
      \* an image
      Entry("GET", "http://h/img/p.png", <<Header("Content-Type", "image/png")>>),
      \* /common/ in the URL, plain text, GET: scored but not included
      Entry("GET", "http://h/common/?a=1", <<Header("Content-Type", "text/plain")>>),
      \* an entity URL answered with an upper-case JSON content type
      Entry("GET", "http://h/x", <<Header("Content-Type", "Application/JSON")>>) }

Logs(pool, max_len) == UNION {[1..n -> pool] : n \in 0..max_len}

JsonValue(t, v) == [t |-> t, v |-> v]

HarDocument(entries) ==
    [utf8 |-> TRUE,
     doc |-> [ok |-> TRUE,
              val |-> JsonValue("dict",
                        [log |-> JsonValue("dict",
                                   [entries |-> JsonValue("list", entries)])])]]

JsonDocument(value) == [utf8 |-> TRUE, doc |-> [ok |-> TRUE, val |-> value]]

\* byte strings that are no traffic-capture document (as a sequence: their
\* values are of different types)
MalformedContents ==
    << [utf8 |-> FALSE, doc |-> [ok |-> FALSE, val |-> JsonValue("null", 0)]],
       [utf8 |-> TRUE, doc |-> [ok |-> FALSE, val |-> JsonValue("null", 0)]],
       JsonDocument(JsonValue("list", <<>>)),
       JsonDocument(JsonValue("str", "har")),
       JsonDocument(JsonValue("num", [n |-> 1, d |-> 1])),
       JsonDocument(JsonValue("null", 0)) >>

\* JSON objects that do not have the shape of a log
OddContents ==
    << JsonDocument(JsonValue("dict", EmptyDict)),
       JsonDocument(JsonValue("dict", [log |-> JsonValue("num", [n |-> 1, d |-> 1])])),
       JsonDocument(JsonValue("dict", [log |-> JsonValue("dict", EmptyDict)])),
       JsonDocument(JsonValue("dict",
           [log |-> JsonValue("dict", [entries |-> JsonValue("null", 0)])])) >>

Filenames == {"capture.har", "capture.json"}

\* req is an upload request of the model: any content under either name,
\* the logs of two entries and more under the .har name only
IsUploadRequest(req) ==
    \/ \E f \in Filenames :
          \/ \E i \in DOMAIN MalformedContents :
                req = [filename |-> f, content |-> MalformedContents[i]]
          \/ \E i \in DOMAIN OddContents :
                req = [filename |-> f, content |-> OddContents[i]]
          \/ \E l \in Logs(EntryPool, 1) :
                req = [filename |-> f, content |-> HarDocument(l)]
    \/ \E l \in Logs(EntryPool, MaxLog) :
          req = [filename |-> "capture.har", content |-> HarDocument(l)]

-----------------------------------------------------------------------------
(* Spec: one upload request, handled once.                                  *)

Idle ==
    /\ api_requests = <<>>
    /\ description = ""
    /\ llm_reply = <<>>
    /\ llm_calls = 0

Init ==
    /\ IsUploadRequest(request)
    /\ session_storage = EmptyDict
    /\ response = NoResponse
    /\ result = NoResult
    /\ Idle

\* the handler returns: its response is sent and its writes are in the store
Returns(out) ==
    /\ response' = out.response
    /\ session_storage' = out.store
    /\ result' = out.processed

UploadHar ==
    /\ response = NoResponse
    /\ Cardinality(DOMAIN session_storage) < MaxSessions
    /\ \E session_id \in SessionIds \ DOMAIN session_storage :
           Returns(upload_har(request, session_storage, session_id))
    /\ UNCHANGED <<request, api_requests, description, llm_reply, llm_calls>>

Next == UploadHar

Spec == Init /\ [][Next]_vars

-----------------------------------------------------------------------------
(* Properties of the upload (specification Spec).                           *)

Handled == response # NoResponse

\* the uploaded bytes are a log: an object with a log object with an entry list
IsLog(content) ==
    /\ content.utf8
    /\ content.doc.ok
    /\ content.doc.val.t = "dict"
    /\ "log" \in DOMAIN content.doc.val.v
    /\ content.doc.val.v.log.t = "dict"
    /\ "entries" \in DOMAIN content.doc.val.v.log.v
    /\ content.doc.val.v.log.v.entries.t = "list"

EntriesOf(content) == content.doc.val.v.log.v.entries.v

\* a session was stored for the uploaded log
Extracted == Handled /\ response.status = 200 /\ IsLog(request.content)

\* the candidate list the upload stored
Output == session_storage[response.session_id].processed_har

HasScore(list, v) ==
    LET Test(c) == c.relevance_score = v IN SelectSeq(list, Test)

\* out is sorted by non-increasing score and holds, score by score, the
\* candidates of collected in their order
SortedStably(out, collected) ==
    /\ \A i, j \in DOMAIN out :
          i < j => out[i].relevance_score >= out[j].relevance_score
    /\ \A v \in {out[i].relevance_score : i \in DOMAIN out}
                \cup {collected[i].relevance_score : i \in DOMAIN collected} :
          HasScore(out, v) = HasScore(collected, v)

\* C3: the extractor's output is sorted by relevance_score in non-increasing
\* order, and the candidates of any one score appear in the order of their
\* entries in the log.
C3_SortedAndStable ==
    Extracted => SortedStably(Output, Collect(EntriesOf(request.content)))

\* two different candidates of equal score, in a log the sort had to reorder
C3_Witness ==
    /\ Extracted
    /\ Output # Collect(EntriesOf(request.content))
    /\ \E i, j \in DOMAIN Output :
          /\ i < j
          /\ Output[i] # Output[j]
          /\ Output[i].relevance_score = Output[j].relevance_score

\* the sum of the spec, with +10 for any marker of the classifier's set
ClaimedScore(method, url, content_type) ==
      (IF is_data_resource(url) THEN 15 ELSE 0)
    + (IF is_entity_resource(url) THEN 12 ELSE 0)
    + (IF \E m \in {"/api/", "api.", "/graphql", "/v1/", "/v2/", "/rest/", ".json"} :
             Contains(url, m) THEN 10 ELSE 0)
    + (IF Contains(url, "/data/") \/ Contains(url, "/common/") THEN 8 ELSE 0)
    + (IF Contains(lower(content_type), "json") THEN 5 ELSE 0)
    + (IF Contains(lower(content_type), "javascript") \/ EndsWith(url, ".js")
       THEN 0 - 5 ELSE 0)
    + (IF method # "GET" THEN 3 ELSE 0)

\* the same sum with +10 only for /api/ or .api.
AmendedScore(method, url, content_type) ==
      (IF is_data_resource(url) THEN 15 ELSE 0)
    + (IF is_entity_resource(url) THEN 12 ELSE 0)
    + (IF Contains(url, "/api/") \/ Contains(url, ".api.") THEN 10 ELSE 0)
    + (IF Contains(url, "/data/") \/ Contains(url, "/common/") THEN 8 ELSE 0)
    + (IF Contains(lower(content_type), "json") THEN 5 ELSE 0)
    + (IF Contains(lower(content_type), "javascript") \/ EndsWith(url, ".js")
       THEN 0 - 5 ELSE 0)
    + (IF method # "GET" THEN 3 ELSE 0)

\* C4 as stated: every candidate's relevance_score is the sum with +10 for any
\* API marker of the classifier's marker set.
C4_ScoreIsClaimedSum ==
    Extracted =>
        \A i \in DOMAIN Output :
            Output[i].relevance_score
                = ClaimedScore(Output[i].method, Output[i].url,
                               Output[i].response_content_type)

\* C4 amended: every candidate's relevance_score is a function of its method,
\* url and response content-type: the sum +15 data resource, +12 entity
\* resource, +10 if the URL contains /api/ or .api., +8 for /data/ or /common/,
\* +5 json, -5 javascript or .js, +3 non-GET.
C4_ScoreIsSum ==
    Extracted =>
        \A i \in DOMAIN Output :
            Output[i].relevance_score
                = AmendedScore(Output[i].method, Output[i].url,
                               Output[i].response_content_type)

\* a candidate with a classifier marker that is no scoring marker, and one
\* with a scoring marker
C4_Witness ==
    /\ Extracted
    /\ \E i, j \in DOMAIN Output :
          /\ is_api_endpoint(Output[i].url)
          /\ ~Contains(Output[i].url, "/api/")
          /\ Contains(Output[j].url, "/api/")

ScenarioUpload ==
    /\ request.filename = "capture.har"
    /\ IsLog(request.content)
    /\ EntriesOf(request.content) = <<ScenarioEntry>>

\* C5 as stated: the scenario log yields exactly one candidate, of score 23.
C5_ScenarioScore23 ==
    (Handled /\ ScenarioUpload) =>
        /\ response.status = 200
        /\ Len(Output) = 1
        /\ Output[1].relevance_score = 23

\* C5 amended: the scenario log yields exactly one candidate, of score 50
\* (15 data resource + 12 entity resource + 10 /api/ + 8 /data/ + 5 json).
C5_ScenarioScore50 ==
    (Handled /\ ScenarioUpload) =>
        /\ response.status = 200
        /\ response.api_count = 1
        /\ Len(Output) = 1
        /\ Output[1].url = "https://x.com/api/data/items/42"
        /\ Output[1].relevance_score = 50

C5_Witness == Handled /\ ScenarioUpload /\ response.status = 200

\* an entry with no content-type response header, or only empty ones
LacksContentType(entry) ==
    \A i \in DOMAIN entry.response.headers :
        lower(entry.response.headers[i].name) = "content-type"
            => entry.response.headers[i].value = ""

\* C6: an entry whose response has no content-type header, or an empty one, is
\* rejected: every candidate of the output is built from an entry that has a
\* content type, and there are no more candidates than such entries.
C6_NoContentTypeRejected ==
    Extracted =>
        LET log == EntriesOf(request.content)
            typed == {k \in DOMAIN log : ~LacksContentType(log[k])}
        IN /\ Len(Output) <= Cardinality(typed)
           /\ \A i \in DOMAIN Output :
                 /\ Output[i].response_content_type # ""
                 /\ \E k \in typed :
                       /\ Output[i].method = log[k].request.method
                       /\ Output[i].url = log[k].request.url
                       /\ Output[i].response_content_type
                              = ContentTypeOf(log[k].response)[1]

\* a log with an entry lacking a content type among entries that are accepted
C6_Witness ==
    /\ Extracted
    /\ Len(Output) = 2
    /\ \E k \in DOMAIN EntriesOf(request.content) :
          /\ LacksContentType(EntriesOf(request.content)[k])
          /\ EntriesOf(request.content)[k].request.method = "POST"

\* bytes that are not UTF-8, text that is not JSON, JSON that is no object
Malformed(content) ==
    \/ ~content.utf8
    \/ ~content.doc.ok
    \/ content.doc.val.t # "dict"

\* C7: an upload of a byte stream that is no structured document fails with
\* the 400 'Invalid HAR file format' error before any entry is classified.
C7_MalformedIs400 ==
    (Handled /\ EndsWith(request.filename, ".har") /\ Malformed(request.content)) =>
        /\ response.status = 400
        /\ response.detail = "Invalid HAR file format. Cannot parse JSON."
        /\ result.classified = 0
        /\ session_storage = EmptyDict

\* the three URL-shape flags of an entry's URL
ShapeFlag(url) ==
    is_api_endpoint(url) \/ is_data_resource(url) \/ is_entity_resource(url)

\* the response is an HTML, image, font or stylesheet response
PageOrAsset(content_type) ==
    \E kind \in {"text/html", "image/", "font/", "text/css"} :
        Contains(lower(content_type), kind)

\* the acceptance rule in the three parts of C21
PassesRules(entry) ==
    LET ct == ContentTypeOf(entry.response)
        url == entry.request.url
    IN /\ ct # None /\ ct[1] # ""
       /\ ~(PageOrAsset(ct[1]) /\ ~ShapeFlag(url))
       /\ \/ entry.request.method # "GET"
          \/ Contains(lower(ct[1]), "json")
          \/ Contains(lower(ct[1]), "application/octet-stream")
          \/ ShapeFlag(url)
          \/ Contains(url, "/data/")

\* an entry that no rejection rule turns away and that the inclusion test
\* leaves out
PassesRejectionOnly(entry) ==
    LET ct == ContentTypeOf(entry.response)
    IN /\ ct # None /\ ct[1] # ""
       /\ ~(PageOrAsset(ct[1]) /\ ~ShapeFlag(entry.request.url))
       /\ ~PassesRules(entry)

\* the candidate of the output is built from the entry
BuiltFrom(candidate, entry) ==
    /\ candidate.method = entry.request.method
    /\ candidate.url = entry.request.url
    /\ candidate.response_content_type = ContentTypeOf(entry.response)[1]

\* C21: an entry appears in the extractor's output if and only if its
\* response has a content-type, it is not a page or asset response lacking
\* all three URL-shape flags, and it passes the inclusion test (method not
\* GET, JSON or octet-stream response, a URL-shape flag, or /data/ in the
\* URL): the output has one candidate for each such entry of the log and
\* no other candidate.
C21_OutputIsAcceptedEntries ==
    Extracted =>
        LET log == EntriesOf(request.content)
            passing == {k \in DOMAIN log : PassesRules(log[k])}
        IN /\ Len(Output) = Cardinality(passing)
           /\ \A k \in passing :
                 Cardinality({i \in DOMAIN Output : BuiltFrom(Output[i], log[k])})
                     = Cardinality({j \in passing : log[j] = log[k]})
           /\ \A i \in DOMAIN Output :
                 \E k \in passing : BuiltFrom(Output[i], log[k])

\* a log with an accepted entry, a rejected page and an entry that passes the
\* rejection rules and fails the inclusion test
C21_Witness ==
    /\ Extracted
    /\ Len(Output) = 1
    /\ LET log == EntriesOf(request.content)
       IN /\ Len(log) = 3
          /\ \E k \in DOMAIN log : PassesRejectionOnly(log[k])
          /\ \E k \in DOMAIN log :
                /\ ContentTypeOf(log[k].response) = Some("text/html")
                /\ ~ShapeFlag(log[k].request.url)

-----------------------------------------------------------------------------
(* utils/llm_service.py: optimize_for_tokens.                               *)

\* a bucket that looks at the relevance score of the candidate
BucketByScore(req) ==
    IF GetOr(req, "relevance_score", 0) >= 20 THEN "data_api"
    ELSE IF EndsWith(lower(GetOr(req, "url", "")), ".js") THEN "static"
    ELSE "possible_api"

\* the list the request is appended to in the first loop
Bucket(req) ==
    LET url == lower(GetOr(req, "url", ""))
        content_type == lower(GetOr(req, "response_content_type", ""))
        method == upper(GetOr(req, "method", ""))
        has_api_indicators ==
            \E m \in {"/api/", ".api.", "/v1/", "/v2/", "/data/", "/common/"} :
                Contains(url, m)
        is_data_response ==
            Contains(content_type, "json") \/ Contains(content_type, "application/json")
        is_action_method == method # "GET"
    IN IF EndsWith(url, ".js") \/ Contains(content_type, "javascript")
       THEN "static"
       ELSE IF has_api_indicators /\ is_data_response THEN "data_api"
       ELSE IF is_data_response \/ is_action_method \/ has_api_indicators
            THEN "possible_api"
       ELSE "static"

InBucket(list, b) == LET Test(req) == Bucket(req) = b IN SelectSeq(list, Test)

\* a concatenation that puts the possible APIs first
FilteredPossibleFirst(list) ==
    InBucket(list, "possible_api") \o InBucket(list, "data_api")
        \o InBucket(list, "static")

\* data_api_requests + possible_api_requests + static_resource_requests
filtered_requests(list) ==
    InBucket(list, "data_api") \o InBucket(list, "possible_api")
        \o InBucket(list, "static")

ImportantHeaders ==
    {"content-type", "authorization", "accept", "user-agent", "origin", "referer",
     "x-api-key"}

\* a filter that looks the lowered name up in the list only
KeptHeaderListed(k) == lower(k) \in ImportantHeaders

KeptHeader(k) ==
    \/ lower(k) \in ImportantHeaders
    \/ Contains(lower(k), "auth")
    \/ Contains(lower(k), "token")
    \/ Contains(lower(k), "key")

BudgetCap == 500

\* response_body[:500] + "... [truncated]" when it is longer
HardTruncated(text) ==
    IF Len(text) > BudgetCap
    THEN SubSeq(text, 1, BudgetCap) \o TruncationMarker ELSE text

PriorityKeys ==
    <<"id", "name", "title", "description", "status", "metadata", "count", "total">>

Take(seq, n) == SubSeq(seq, 1, IF Len(seq) < n THEN Len(seq) ELSE n)

\* a reduction that keeps the priority keys only
TruncatedKeysPriorityOnly(obj) ==
    LET IsKey(k) == k \in DOMAIN obj.v
    IN SelectSeq(PriorityKeys, IsKey)

\* the keys of truncated_obj, in insertion order
TruncatedKeys(obj) ==
    LET IsKey(k) == k \in DOMAIN obj.v
        IsOther(k) == ~\E i \in DOMAIN PriorityKeys : PriorityKeys[i] = k
    IN SelectSeq(PriorityKeys, IsKey) \o Take(SelectSeq(obj.keys, IsOther), 7)

RestrictedTo(obj, keys) ==
    [t |-> "dict",
     v |-> [k \in {keys[i] : i \in DOMAIN keys} |-> obj.v[k]],
     keys |-> keys]

\* json_obj after the two size rules
Shortened(json_obj) ==
    IF json_obj.t = "list" /\ Len(json_obj.v) > 3
    THEN [t |-> "list", v |-> SubSeq(json_obj.v, 1, 3)]
    ELSE IF json_obj.t = "dict" /\ Len(json_obj.keys) > 10
    THEN RestrictedTo(json_obj, TruncatedKeys(json_obj))
    ELSE json_obj

\* the try block around json.loads(response_body)
SemanticTruncated(text, parsed) ==
    IF parsed.ok THEN json_dumps(Shortened(parsed.val)) ELSE HardTruncated(text)

\* optimized_request['response_body']
BudgetedResponseBody(text, content_type) ==
    IF Contains(lower(content_type), "json")
    THEN SemanticTruncated(text, json_loads(text))
    ELSE HardTruncated(text)

\* a body whose text is cut like a response body
BudgetedBodyCapped(body) ==
    [mime_type |-> GetOr(body, "mime_type", ""),
     format |-> GetOr(body, "format", "text"),
     text |-> HardTruncated(GetOr(body, "text", ""))]
    @@ (IF "parsed_json" \in DOMAIN body
        THEN [parsed_json |-> body.parsed_json] ELSE EmptyDict)

\* optimized_request['body']
BudgetedBody(body) ==
    [mime_type |-> GetOr(body, "mime_type", ""),
     format |-> GetOr(body, "format", "text"),
     text |-> GetOr(body, "text", "")]
    @@ (IF "parsed_json" \in DOMAIN body
        THEN [parsed_json |-> body.parsed_json] ELSE EmptyDict)
    @@ (IF "params" \in DOMAIN body /\ body.params # <<>>
        THEN [params |-> body.params] ELSE EmptyDict)

\* the fields of a request that it may lack
OrNone(req, k) == GetOr(req, k, PyNone)

\* the simplified version of one request
optimized_request(req) ==
    [method |-> OrNone(req, "method"),
     url |-> OrNone(req, "url"),
     response_status |-> OrNone(req, "response_status"),
     response_content_type |-> OrNone(req, "response_content_type"),
     headers |-> [k \in {h \in DOMAIN GetOr(req, "headers", EmptyDict) : KeptHeader(h)}
                     |-> req.headers[k]]]
    @@ (IF "query_params" \in DOMAIN req /\ req.query_params # EmptyDict
        THEN [query_params |-> req.query_params] ELSE EmptyDict)
    @@ (IF "body" \in DOMAIN req
        THEN [body |-> BudgetedBody(req.body)] ELSE EmptyDict)
    @@ (IF "response_body" \in DOMAIN req
        THEN [response_body |->
                 BudgetedResponseBody(req.response_body,
                                      GetOr(req, "response_content_type", ""))]
        ELSE EmptyDict)
    @@ (IF "response_body" \in DOMAIN req /\ "response_parsed" \in DOMAIN req
        THEN [response_parsed |-> req.response_parsed] ELSE EmptyDict)

OptimizedAll(list) == [i \in DOMAIN list |-> optimized_request(list[i])]

optimize_for_tokens(list) == OptimizedAll(filtered_requests(list))

-----------------------------------------------------------------------------
(* The reasoning collaborator: openai.chat.completions.create either raises *)
(* or returns a message whose content is a text.                            *)

Raises == [raises |-> TRUE, content |-> ""]
Answers(text) == [raises |-> FALSE, content |-> text]

-----------------------------------------------------------------------------
(* utils/llm_service.py: verify_har_relevance.                              *)

\* a gate that lets lists of four requests through to the collaborator
FewRequestsBelowFour(requests) == Len(requests) < 4

\* `if len(api_requests) < 5`
FewRequests(requests) == Len(requests) < 5

\* the special case for the San Francisco weather widget
WeatherWidgetCase(requests, descr) ==
    /\ Contains(lower(descr), "weather")
    /\ Contains(lower(descr), "san francisco") \/ Contains(lower(descr), "san fran")
    /\ \E i \in DOMAIN requests :
          \/ /\ Contains(lower(GetOr(requests[i], "url", "")), "forecast7.com")
             /\ Contains(lower(GetOr(requests[i], "url", "")), "san-francisco")
          \/ Contains(lower(GetOr(requests[i], "url", "")), "weatherwidget.io")

\* an except branch that rejects when the collaborator is down
GateOnErrorRejects == FALSE

\* `except Exception: return True`
GateOnError == TRUE

\* the try block: the call and the reading of its answer
GateJudgment(reply) ==
    IF reply.raises THEN GateOnError
    ELSE upper(strip(reply.content)) = "YES"

GateResult(value, calls) ==
    [exc |-> "none", value |-> value, calls |-> calls]

\* reply is what the collaborator answers if it is called
verify_har_relevance(requests, descr, reply) ==
    IF FewRequests(requests) THEN GateResult(TRUE, 0)
    ELSE IF WeatherWidgetCase(requests, descr) THEN GateResult(TRUE, 0)
    ELSE GateResult(GateJudgment(reply), 1)

-----------------------------------------------------------------------------
(* SpecGate: the relevance gate applied to an extracted candidate list.     *)

GatePool ==
    { Entry("GET", "http://h/api/items", <<Header("Content-Type", "application/json")>>),
      Entry("GET", "https://weatherwidget.io/w/sf", <<Header("Content-Type", "text/html")>>),
      Entry("GET", "http://h/", <<Header("Content-Type", "text/html")>>) }

GateDescriptions == {"", "get items", "Weather in San Francisco"}

GateReplies ==
    {Raises, Answers("YES"), Answers("NO"), Answers(" yes\n"), Answers("Yes, related")}

InitGate ==
    /\ request = 0
    /\ session_storage = EmptyDict
    /\ response = NoResponse
    /\ \E l \in Logs(GatePool, MaxGateLog) :
          api_requests = process_har_file(HarDocument(l)).value
    /\ description \in GateDescriptions
    /\ result = NoResult
    /\ \E r \in GateReplies : llm_reply = <<r>>
    /\ llm_calls = 0

\* the function returns: its value is kept and its calls are counted
GateReturns(out) ==
    /\ result' = out
    /\ llm_calls' = llm_calls + out.calls

VerifyHarRelevance ==
    /\ result.exc = "idle"
    /\ GateReturns(verify_har_relevance(api_requests, description, llm_reply[1]))
    /\ UNCHANGED <<request, session_storage, response, api_requests, description,
                   llm_reply>>

NextGate == VerifyHarRelevance

SpecGate == InitGate /\ [][NextGate]_vars

GateDone == result.exc = "none"

\* C8: for a candidate list of 0 to 4 requests the gate returns true for every
\* description, the empty one included, and for every reply the collaborator
\* would give, and it issues no call.
C8_FewRequestsPass ==
    (GateDone /\ Len(api_requests) <= 4) =>
        /\ result.value = TRUE
        /\ llm_calls = 0

\* four requests, the empty description, a collaborator that would say NO
C8_Witness ==
    /\ GateDone
    /\ Len(api_requests) = 4
    /\ description = ""
    /\ llm_reply[1] = Answers("NO")

\* C9: for a list of 5 or more requests, when the gate's call to the
\* collaborator fails, the gate returns true and raises nothing.
C9_FailureDefaultsToTrue ==
    (result.exc # "idle" /\ Len(api_requests) >= 5 /\ llm_reply[1].raises) =>
        /\ result.exc = "none"
        /\ result.value = TRUE
        /\ llm_calls <= 1

\* five or more requests, a call issued and failed
C9_Witness ==
    /\ GateDone
    /\ Len(api_requests) >= 5
    /\ llm_calls = 1
    /\ llm_reply[1].raises

\* the collaborator was called and answered
GateAnswered ==
    /\ GateDone
    /\ Len(api_requests) >= 5
    /\ llm_calls = 1
    /\ ~llm_reply[1].raises

\* C24: for 5 or more candidates and a successful call, the gate returns
\* true whenever the collaborator's text contains the answer YES, with any
\* text around it and in any case, and returns false only when the text
\* answers NO.
C24_GateToleratesExtraText ==
    GateAnswered =>
        /\ Contains(upper(llm_reply[1].content), "YES") => result.value = TRUE
        /\ result.value = FALSE => StartsWith(upper(strip(llm_reply[1].content)), "NO")

-----------------------------------------------------------------------------
(* SpecBudget: a capture is uploaded, then the budgeter and the gate are    *)
(* applied to the stored list, and the budgeter to its own output.          *)

Ten == "0123456789"
Hundred == Ten \o Ten \o Ten \o Ten \o Ten \o Ten \o Ten \o Ten \o Ten \o Ten

\* a text longer than the cap of the response bodies
LongText == Hundred \o Hundred \o Hundred \o Hundred \o Hundred \o Ten \o Ten

BudgetPool ==
    { \* a data API
      Entry("GET", "http://h/api/items/1",
            <<Header("Content-Type", "application/json")>>),
      \* a page
      Entry("GET", "http://h/docs/guide", <<Header("Content-Type", "text/html")>>),
      \* a script with every marker, answered as JSON, posted with a long
      \* JSON body: it outscores every other entry
      EntryWithBody("POST", "http://h/api/data/v1/app.js",
                    <<Header("Content-Type", "application/json")>>,
                    "application/json", "{\"q\": \"" \o LongText \o "\"}"),
      \* a non-GET request with a long body that is no JSON
      EntryWithBody("POST", "http://h/graphql",
                    <<Header("Content-Type", "text/plain")>>,
                    "text/plain", LongText),
      \* an image: rejected by the extractor
      Entry("GET", "http://h/img/p.png", <<Header("Content-Type", "image/png")>>) }

InitBudget ==
    /\ \E l \in Logs(BudgetPool, MaxBudgetLog) :
          request = [filename |-> "capture.har", content |-> HarDocument(l)]
    /\ session_storage = EmptyDict
    /\ response = NoResponse
    /\ api_requests = <<>>
    /\ description = ""
    /\ result = NoResult
    /\ llm_reply = <<Answers("NO")>>
    /\ llm_calls = 0

\* the upload has answered and no stage has read the stored list yet
Uploaded ==
    /\ response.status = 200
    /\ "classified" \in DOMAIN result
    /\ result.exc = "none"

\* the budgeter returns: the list it was given and the list it returned
BudgetReturns(input, out) ==
    /\ api_requests' = input
    /\ result' = [exc |-> "none", input |-> input, value |-> out]

\* optimize_for_tokens applied to the stored list
OptimizeForTokens ==
    /\ Uploaded
    /\ BudgetReturns(Output, optimize_for_tokens(Output))
    /\ UNCHANGED <<request, session_storage, response, description, llm_reply,
                   llm_calls>>

\* optimize_for_tokens applied to the list it returned for the stored list
OptimizeOutput ==
    /\ "input" \in DOMAIN result
    /\ result.input = Output
    /\ BudgetReturns(result.value, optimize_for_tokens(result.value))
    /\ UNCHANGED <<request, session_storage, response, description, llm_reply,
                   llm_calls>>

\* verify_har_relevance applied to the stored list
VerifyStoredRelevance ==
    /\ Uploaded
    /\ api_requests' = Output
    /\ GateReturns(verify_har_relevance(Output, description, llm_reply[1]))
    /\ UNCHANGED <<request, session_storage, response, description, llm_reply>>

NextBudget ==
    UploadHar \/ OptimizeForTokens \/ OptimizeOutput \/ VerifyStoredRelevance

SpecBudget == InitBudget /\ [][NextBudget]_vars

BudgetDone == "input" \in DOMAIN result

\* the budgeter was given a list it had returned
Rebudgeted ==
    /\ BudgetDone
    /\ \A i \in DOMAIN result.input : "relevance_score" \notin DOMAIN result.input[i]

\* the projection b carries the text, type, format and parsed JSON of orig
SameBody(b, orig) ==
    /\ b.text = orig.text
    /\ b.mime_type = orig.mime_type
    /\ b.format = orig.format
    /\ "parsed_json" \in DOMAIN b <=> "parsed_json" \in DOMAIN orig
    /\ "parsed_json" \in DOMAIN orig => b.parsed_json = orig.parsed_json

\* r is a projection of the candidate c
ProjectionOf(r, c) ==
    /\ r.method = c.method
    /\ r.url = c.url
    /\ r.response_status = c.response_status
    /\ r.response_content_type = c.response_content_type
    /\ "body" \in DOMAIN r <=> "body" \in DOMAIN c

\* C15: for every candidate that has a body, the budgeter's projection
\* carries the body's text, mime_type, format and parsed_json equal to the
\* original's, whatever their size: no body is shortened or altered.
C15_BodyIsKept ==
    (BudgetDone /\ ~Rebudgeted) =>
        \A i \in DOMAIN result.input :
            "body" \in DOMAIN result.input[i] =>
                \E j \in DOMAIN result.value :
                    /\ ProjectionOf(result.value[j], result.input[i])
                    /\ SameBody(result.value[j].body, result.input[i].body)

\* bodies longer than the cap of the response bodies, one with parsed JSON
\* and one without
C15_Witness ==
    /\ BudgetDone
    /\ ~Rebudgeted
    /\ \E i, j \in DOMAIN result.input :
          /\ "body" \in DOMAIN result.input[i]
          /\ Len(result.input[i].body.text) > BudgetCap
          /\ "parsed_json" \in DOMAIN result.input[i].body
          /\ "body" \in DOMAIN result.input[j]
          /\ Len(result.input[j].body.text) > BudgetCap
          /\ "parsed_json" \notin DOMAIN result.input[j].body

\* result.value lists the records of result.input in the same order
SameOrder ==
    /\ Len(result.value) = Len(result.input)
    /\ \A i \in DOMAIN result.input :
          ProjectionOf(result.value[i], result.input[i])

\* C16: the bucket of a candidate depends only on its url, response
\* content-type and method, so the budgeted projection of a candidate falls
\* in the bucket of the candidate, and the budgeter applied to its own output
\* leaves the order of the records unchanged.
C16_BucketIsIdempotent ==
    BudgetDone =>
        /\ \A i \in DOMAIN result.input :
              Bucket(optimized_request(result.input[i])) = Bucket(result.input[i])
        /\ \A i \in DOMAIN result.input :
              \E j \in DOMAIN result.value :
                  /\ ProjectionOf(result.value[j], result.input[i])
                  /\ Bucket(result.value[j]) = Bucket(result.input[i])
        /\ Rebudgeted => SameOrder

\* the budgeter's output of three buckets, which it had reordered, budgeted
\* again
C16_Witness ==
    /\ Rebudgeted
    /\ Len(result.input) = 3
    /\ {Bucket(result.input[i]) : i \in DOMAIN result.input}
           = {"data_api", "possible_api", "static"}
    /\ Output[1].url # result.input[1].url

BucketRank(b) ==
    IF b = "data_api" THEN 1 ELSE IF b = "possible_api" THEN 2 ELSE 3

Orderings(n) ==
    {p \in [1..n -> 1..n] : \A i, j \in 1..n : p[i] = p[j] => i = j}

IsScript(req) ==
    \/ EndsWith(req.url, ".js")
    \/ Contains(req.response_content_type, "javascript")

\* C20: the budgeter's output holds one record per input candidate, none
\* dropped or duplicated; every data_api record precedes every possible_api
\* record, which precedes every static record; records of one bucket keep
\* their input order; and a candidate whose URL ends in .js or whose
\* content-type contains javascript is in the static bucket whatever its
\* markers, content-type or method.
C20_BucketsInOrder ==
    (BudgetDone /\ ~Rebudgeted) =>
        /\ Len(result.value) = Len(result.input)
        /\ \E p \in Orderings(Len(result.input)) :
              /\ \A i \in DOMAIN result.value :
                    /\ ProjectionOf(result.value[i], result.input[p[i]])
                    /\ Bucket(result.value[i]) = Bucket(result.input[p[i]])
              /\ \A i, j \in DOMAIN result.value :
                    (i < j /\ Bucket(result.value[i]) = Bucket(result.value[j]))
                        => p[i] < p[j]
        /\ \A i, j \in DOMAIN result.value :
              i < j => BucketRank(Bucket(result.value[i]))
                           <= BucketRank(Bucket(result.value[j]))
        /\ \A i \in DOMAIN result.input :
              IsScript(result.input[i]) => Bucket(result.input[i]) = "static"

\* a script with API markers, a JSON content-type and a POST method that was
\* first in the input and is last in the output, behind a data API and a page
C20_Witness ==
    /\ BudgetDone
    /\ ~Rebudgeted
    /\ Len(result.input) = 3
    /\ IsScript(result.input[1])
    /\ result.input[1].method = "POST"
    /\ Contains(result.input[1].url, "/api/")
    /\ Contains(result.input[1].response_content_type, "json")
    /\ IsScript(result.value[3])
    /\ Bucket(result.value[1]) = "data_api"
    /\ Bucket(result.value[2]) = "static"

\* the gate has returned for the stored list
StoredGateDone == "calls" \in DOMAIN result /\ result.exc = "none"

\* C19: a well-formed log from which no candidate is extracted is no error:
\* the upload succeeds with a session holding the empty list, and the
\* budgeter and the gate applied to the empty list return the empty list and
\* true without raising.
C19_EmptyListIsLegal ==
    /\ (/\ Handled
        /\ IsLog(request.content)
        /\ Collect(EntriesOf(request.content)) = <<>>) =>
            /\ response.status = 200
            /\ response.api_count = 0
            /\ Output = <<>>
    /\ (BudgetDone /\ result.input = <<>>) =>
            /\ result.exc = "none"
            /\ result.value = <<>>
    /\ (StoredGateDone /\ api_requests = <<>>) =>
            /\ result.value = TRUE
            /\ llm_calls = 0

\* the gate has answered for the empty list stored for a log whose entries
\* were all rejected
C19_Witness ==
    /\ StoredGateDone
    /\ Output = <<>>
    /\ api_requests = <<>>
    /\ EntriesOf(request.content) # <<>>
    /\ response.status = 200

-----------------------------------------------------------------------------
(* SpecReduce: the operations of SpecBudget on captures whose requests      *)
(* carry several headers and whose responses carry texts of every kind the  *)
(* budgeter tells apart.                                                    *)

ReduceEntry(method, url, request_headers, content_type, text) ==
    [request |-> [method |-> method, url |-> url,
                  headers |-> request_headers,
                  queryString |-> <<>>],
     response |-> [status |-> 200,
                   headers |-> <<Header("Content-Type", content_type)>>,
                   content |-> [text |-> text]]]

ManyHeaders ==
    << Header("Accept", "*/*"),
       Header("X-Requested-With", "XMLHttpRequest"),
       Header("X-CSRF-Token", "t0"),
       Header("Cookie", "sid=1"),
       Header("AUTHORIZATION", "Bearer b"),
       Header("Monkey", "m"),
       Header("User-Agent", "ua"),
       Header("Host", "h") >>

FewHeaders == <<Header("accept", "text/html"), Header("Connection", "close")>>

\* an object of sixteen keys, the eight priority keys among them
SixteenKeys ==
    "{\"a\": 1, \"b\": 2, \"total\": 3, \"c\": 4, \"d\": 5, \"id\": 6, "
    \o "\"e\": 7, \"name\": 8, \"f\": 9, \"title\": 10, \"g\": 11, "
    \o "\"description\": 12, \"status\": 13, \"h\": 14, \"metadata\": 15, "
    \o "\"count\": 16}"

ReducePool ==
    { \* a JSON array of five elements
      ReduceEntry("GET", "http://h/api/items", ManyHeaders,
                  "application/json", "[1, 2, 3, 4, 5]"),
      \* a JSON object of sixteen keys
      ReduceEntry("GET", "http://h/api/user/1", FewHeaders,
                  "application/json", SixteenKeys),
      \* a small JSON object, written without spaces
      ReduceEntry("GET", "http://h/api/ok", FewHeaders,
                  "application/json; charset=utf-8", "{\"ok\":true,\"n\":[1,2]}"),
      \* a long text that is no JSON, served as JSON
      ReduceEntry("GET", "http://h/api/broken", ManyHeaders,
                  "application/json", "{" \o LongText),
      \* a short text that is no JSON, served as JSON
      ReduceEntry("GET", "http://h/api/short", FewHeaders,
                  "text/json", "oops"),
      \* a long text served as plain text
      ReduceEntry("POST", "http://h/submit", ManyHeaders,
                  "text/plain", LongText),
      \* a JSON array served as plain text
      ReduceEntry("POST", "http://h/echo", FewHeaders,
                  "text/plain", "[1, 2, 3, 4, 5]") }

InitReduce ==
    /\ \E l \in Logs(ReducePool, MaxReduceLog) :
          request = [filename |-> "capture.har", content |-> HarDocument(l)]
    /\ session_storage = EmptyDict
    /\ response = NoResponse
    /\ api_requests = <<>>
    /\ description = ""
    /\ result = NoResult
    /\ llm_reply = <<Answers("NO")>>
    /\ llm_calls = 0

SpecReduce == InitReduce /\ [][NextBudget]_vars

\* the name test of C22
AllowedName(name) ==
    \/ lower(name) \in {"content-type", "authorization", "accept", "user-agent",
                         "origin", "referer"}
    \/ \E part \in {"auth", "token", "key"} : Contains(lower(name), part)

\* the headers of the projection r are the allowed headers of the candidate c
AllowedHeadersOf(r, c) ==
    /\ \A k \in DOMAIN r.headers :
          /\ k \in DOMAIN c.headers
          /\ r.headers[k] = c.headers[k]
          /\ AllowedName(k)
    /\ \A k \in DOMAIN c.headers : AllowedName(k) => k \in DOMAIN r.headers

\* C22: every header of a budgeted request is a header of the originating
\* candidate with its value unchanged and a name that is (in any case) one
\* of content-type, authorization, accept, user-agent, origin, referer or
\* contains auth, token or key; every such header of the candidate is kept.
C22_HeadersAreAllowList ==
    BudgetDone =>
        /\ Len(result.value) = Len(result.input)
        /\ \A j \in DOMAIN result.value :
              \E i \in DOMAIN result.input :
                  /\ ProjectionOf(result.value[j], result.input[i])
                  /\ AllowedHeadersOf(result.value[j], result.input[i])

\* a stored candidate with headers kept by name, kept by a part of the name
\* and dropped
C22_Witness ==
    /\ BudgetDone
    /\ ~Rebudgeted
    /\ \E j \in DOMAIN result.value : \E i \in DOMAIN result.input :
          /\ ProjectionOf(result.value[j], result.input[i])
          /\ {"Cookie", "Host", "X-Requested-With"} \subseteq DOMAIN result.input[i].headers
          /\ DOMAIN result.value[j].headers
                 = {"Accept", "X-CSRF-Token", "AUTHORIZATION", "Monkey", "User-Agent"}

Smaller(a, b) == IF a < b THEN a ELSE b

IsPriorityKey(k) == \E i \in DOMAIN PriorityKeys : PriorityKeys[i] = k

\* got is the mapping orig reduced to its priority keys and seven other keys
\* (all the other keys when there are fewer), each with its value in orig
ReducedMapping(got, orig) ==
    LET others == {k \in DOMAIN orig.v : ~IsPriorityKey(k)}
        kept == DOMAIN got.v \ {k \in DOMAIN got.v : IsPriorityKey(k)}
    IN /\ DOMAIN got.v \subseteq DOMAIN orig.v
       /\ \A k \in DOMAIN orig.v : IsPriorityKey(k) => k \in DOMAIN got.v
       /\ Cardinality(kept) = Smaller(7, Cardinality(others))
       /\ Cardinality(DOMAIN got.v) <= 15
       /\ \A k \in DOMAIN got.v : got.v[k] = orig.v[k]

\* got is the parsed value orig after the two size rules
ReducedValue(got, orig) ==
    /\ got.t = orig.t
    /\ IF orig.t = "list"
       THEN got.v = SubSeq(orig.v, 1, Smaller(3, Len(orig.v)))
       ELSE IF orig.t = "dict"
       THEN IF Cardinality(DOMAIN orig.v) > 10
            THEN ReducedMapping(got, orig)
            ELSE got.keys = orig.keys /\ got.v = orig.v
       ELSE got.v = orig.v

\* out is the reduction of the stored response text under the content type
ReducedText(out, text, content_type, parsed) ==
    IF Contains(lower(content_type), "json") /\ parsed.ok
    THEN /\ json_loads(out).ok
         /\ ReducedValue(json_loads(out).val, parsed.val)
    ELSE IF Len(text) > 500
    THEN out = SubSeq(text, 1, 500) \o "... [truncated]"
    ELSE out = text

\* C23: the response_body of a budgeted request is the reduction of the
\* stored response text: under a JSON content-type a text that parses is
\* written back with a sequence cut to its first 3 elements and a mapping of
\* more than 10 keys reduced to its priority keys plus at most 7 other keys
\* (at most 15 keys, each with its original value); a text that does not
\* parse, or any text under another content-type, is cut to its first 500
\* characters followed by the truncation marker when it is longer than 500
\* characters and is kept unchanged otherwise.
C23_ResponseBodyIsReduced ==
    (BudgetDone /\ ~Rebudgeted) =>
        /\ Len(result.value) = Len(result.input)
        /\ \A j \in DOMAIN result.value :
              \E i \in DOMAIN result.input :
                  /\ ProjectionOf(result.value[j], result.input[i])
                  /\ "response_body" \in DOMAIN result.value[j]
                  /\ ReducedText(result.value[j].response_body,
                                 result.input[i].response_body,
                                 result.input[i].response_content_type,
                                 json_loads(result.input[i].response_body))

\* a mapping of sixteen keys reduced to fifteen next to a long text that does
\* not parse and is cut
C23_Witness ==
    /\ BudgetDone
    /\ ~Rebudgeted
    /\ \E j, k \in DOMAIN result.value :
          /\ result.value[j].url = "http://h/api/user/1"
          /\ Cardinality(DOMAIN json_loads(result.value[j].response_body).val.v) = 15
          /\ result.value[k].url = "http://h/api/broken"
          /\ Len(result.value[k].response_body) = 500 + Len(TruncationMarker)

\* a sequence of five elements cut to three next to the same text kept whole
\* under a content type that is no JSON
C23_WitnessSequence ==
    /\ BudgetDone
    /\ ~Rebudgeted
    /\ \E j, k \in DOMAIN result.value :
          /\ result.value[j].url = "http://h/api/items"
          /\ result.value[j].response_body = "[1, 2, 3]"
          /\ result.value[k].url = "http://h/echo"
          /\ result.value[k].response_body = "[1, 2, 3, 4, 5]"


\* s.split(sep)[1] when sep occurs in s: the text between its first and its
\* second occurrence
SecondPart(s, sep) ==
    LET rest == SubSeq(s, Find(s, sep) + Len(sep), Len(s))
    IN IF Contains(rest, sep) THEN SubSeq(rest, 1, Find(rest, sep) - 1) ELSE rest

RECURSIVE TokenEnd(_, _)
\* first index at or after i that holds whitespace
TokenEnd(s, i) ==
    IF i <= Len(s) /\ CharAt(s, i) \notin Whitespace THEN TokenEnd(s, i + 1) ELSE i

\* s.split()[0] for a stripped, non-empty s
FirstToken(s) == SubSeq(s, 1, TokenEnd(s, 1) - 1)

RECURSIVE RStripChars(_, _)
\* s.rstrip(chars)
RStripChars(s, chars) ==
    IF s # "" /\ CharAt(s, Len(s)) \in chars
    THEN RStripChars(SubSeq(s, 1, Len(s) - 1), chars) ELSE s

LocationWords == <<"in", "for", "at", "of">>

\* location_parts[1].strip().split()[0].rstrip('.,;:!?'); split()[0] raises
\* IndexError when nothing but whitespace follows the word
LocationCandidate(part, loc, exc) ==
    IF exc # "none" THEN [exc |-> exc, loc |-> loc]
    ELSE IF strip(part) = "" THEN [exc |-> "IndexError", loc |-> loc]
    ELSE [exc |-> "none",
          loc |-> RStripChars(FirstToken(strip(part)), {".", ",", ";", ":", "!", "?"})]

RECURSIVE LocationFrom(_, _, _)
\* the loop over location_words from word i on; found is the state so far
LocationFrom(dl, i, found) ==
    IF i > Len(LocationWords) \/ found.exc # "none" THEN found
    ELSE IF Contains(dl, " " \o LocationWords[i] \o " ")
    THEN LocationFrom(dl, i + 1,
             LocationCandidate(SecondPart(dl, " " \o LocationWords[i] \o " "),
                               found.loc, found.exc))
    ELSE LocationFrom(dl, i + 1, found)

is_weather_query(descr) == Contains(lower(descr), "weather")

\* location_in_query, "" standing for None, or the IndexError of the loop
location_in_query(descr) ==
    IF is_weather_query(descr)
    THEN LocationFrom(lower(descr), 1, [exc |-> "none", loc |-> ""])
    ELSE [exc |-> "none", loc |-> ""]

WeatherIndicators ==
    {"weather", "forecast", "climate", "temperature", "meteorolog", "condition",
     "precip", "rain", "snow"}

is_weather_api(url) == \E w \in WeatherIndicators : Contains(url, w)

AllIn(s, a, b, chars) ==
    a <= b /\ \A k \in a..b : Contains(chars, CharAt(s, k))

\* re.search(r'\/[0-9.-]+\/[0-9.-]+\/', url)
CoordinatePattern(url) ==
    \E i, j, k \in 1..Len(url) :
        /\ CharAt(url, i) = "/" /\ CharAt(url, j) = "/" /\ CharAt(url, k) = "/"
        /\ AllIn(url, i + 1, j - 1, "0123456789.-")
        /\ AllIn(url, j + 1, k - 1, "0123456789.-")

\* re.search(r'\/[a-z-]+\/', url)
CityPattern(url) ==
    \E i, j \in 1..Len(url) :
        /\ CharAt(url, i) = "/" /\ CharAt(url, j) = "/"
        /\ AllIn(url, i + 1, j - 1, LowerLetters \o "-")

has_location_data(url) ==
    \/ CoordinatePattern(url)
    \/ CityPattern(url)
    \/ Contains(url, "city")
    \/ Contains(url, "location")

\* the entry of weather_apis for one optimized request
WeatherEntry(req, loc) ==
    [request |-> req,
     is_weather_api |-> is_weather_api(lower(GetOr(req, "url", ""))),
     has_location_data |-> has_location_data(lower(GetOr(req, "url", ""))),
     location_match |-> loc # "" /\ Contains(lower(GetOr(req, "url", "")), loc)]

RECURSIVE weather_apis(_, _)
weather_apis(optimized, loc) ==
    IF optimized = <<>> THEN <<>>
    ELSE (IF \/ is_weather_api(lower(GetOr(Head(optimized), "url", "")))
             \/ Contains(lower(GetOr(Head(optimized), "url", "")), "forecast")
          THEN <<WeatherEntry(Head(optimized), loc)>> ELSE <<>>)
         \o weather_apis(Tail(optimized), loc)

\* confidences are exact fractions [n |-> numerator, d |-> denominator]
Fraction(n, d) == [n |-> n, d |-> d]
Less(a, b) == a.n * b.d < b.n * a.d
Max(a, b) == IF Less(a, b) THEN b ELSE a
Min(a, b) == IF Less(b, a) THEN b ELSE a

Selected(req, confidence, calls) ==
    [exc |-> "none", request |-> req, confidence |-> confidence, calls |-> calls]

SelectorRaises(exc, calls) ==
    [exc |-> exc, request |-> PyNone, confidence |-> Fraction(0, 1), calls |-> calls]

\* a fallback that hands back the lowest-ranked request
FallbackLast(optimized) ==
    IF optimized # <<>> THEN Selected(optimized[Len(optimized)], Fraction(1, 10), 1)
    ELSE SelectorRaises("ValueError", 1)

\* the two fallbacks after the call: the first request, or ValueError
Fallback(optimized) ==
    IF optimized # <<>> THEN Selected(optimized[1], Fraction(1, 10), 1)
    ELSE SelectorRaises("ValueError", 1)

\* re.search(r'({.*})', content, re.DOTALL): from the first "{" to the last "}"
HasJsonMatch(content) ==
    /\ Contains(content, "{")
    /\ \E b \in (Find(content, "{") + 1)..Len(content) : CharAt(content, b) = "}"

JsonGroup(content) ==
    SubSeq(content, Find(content, "{"),
           CHOOSE b \in 1..Len(content) :
               /\ CharAt(content, b) = "}"
               /\ \A k \in (b + 1)..Len(content) : CharAt(content, k) # "}")

\* where r'([0-9]\.[0-9]+)' can match
DecimalAt(content, i) ==
    /\ i + 2 <= Len(content)
    /\ CharAt(content, i) \in Digits
    /\ CharAt(content, i + 1) = "."
    /\ CharAt(content, i + 2) \in Digits

FirstDecimal(content) ==
    CHOOSE i \in 1..Len(content) :
        DecimalAt(content, i) /\ \A k \in 1..(i - 1) : ~DecimalAt(content, k)

\* float(confidence_match.group(1)) if confidence_match else 0.5
ConfidenceIn(content) ==
    IF \E i \in 1..Len(content) : DecimalAt(content, i)
    THEN Decimal(CharAt(content, FirstDecimal(content)),
                 SubSeq(content, FirstDecimal(content) + 2,
                        DigitsEnd(content, FirstDecimal(content) + 2) - 1))
    ELSE Fraction(5, 10)

\* the special handling for embedded or widget-based APIs; text is
\* str(matched_request)
Adjusted(descr, loc, text, confidence) ==
    IF \/ is_weather_query(descr) /\ Contains(text, "weatherwidget")
       \/ Contains(text, "forecast")
    THEN IF loc # ""
         THEN IF Contains(lower(text), lower(loc))
              THEN Max(confidence, Fraction(9, 10))
              ELSE Min(confidence, Fraction(3, 10))
         ELSE confidence
    ELSE confidence

\* `if json_match:` with the outcome of json.loads(json_match.group(1))
ParsedAnswer(optimized, descr, loc, content, parsed) ==
    IF parsed.ok
    THEN Selected(Native(parsed.val),
                  Adjusted(descr, loc, str(parsed.val), ConfidenceIn(content)), 1)
    ELSE Fallback(optimized)

\* the try block after the call returned content
ReadAnswer(optimized, descr, loc, content) ==
    IF HasJsonMatch(content)
    THEN ParsedAnswer(optimized, descr, loc, content, json_loads(JsonGroup(content)))
    ELSE Fallback(optimized)

AskCollaborator(optimized, descr, loc, reply) ==
    IF reply.raises THEN Fallback(optimized)
    ELSE ReadAnswer(optimized, descr, loc, strip(reply.content))

FirstWhere(apis, field) ==
    LET Test(a) == a[field] IN SelectSeq(apis, Test)

\* a shortcut whose last branch hands back the entry of weather_apis, not the
\* request it wraps
WithWeatherApisWrapped(optimized, descr, loc, apis, reply) ==
    IF is_weather_query(descr) /\ apis # <<>>
    THEN IF loc # "" /\ FirstWhere(apis, "location_match") # <<>>
         THEN Selected(FirstWhere(apis, "location_match")[1].request,
                       Fraction(95, 100), 0)
         ELSE IF loc # "" /\ FirstWhere(apis, "has_location_data") # <<>>
         THEN Selected(FirstWhere(apis, "has_location_data")[1].request,
                       Fraction(3, 10), 0)
         ELSE Selected(apis[1], Fraction(7, 10), 0)
    ELSE AskCollaborator(optimized, descr, loc, reply)

\* the weather shortcut, then the call
WithWeatherApis(optimized, descr, loc, apis, reply) ==
    IF is_weather_query(descr) /\ apis # <<>>
    THEN IF loc # "" /\ FirstWhere(apis, "location_match") # <<>>
         THEN Selected(FirstWhere(apis, "location_match")[1].request,
                       Fraction(95, 100), 0)
         ELSE IF loc # "" /\ FirstWhere(apis, "has_location_data") # <<>>
         THEN Selected(FirstWhere(apis, "has_location_data")[1].request,
                       Fraction(3, 10), 0)
         ELSE Selected(apis[1].request, Fraction(7, 10), 0)
    ELSE AskCollaborator(optimized, descr, loc, reply)

WithLocation(optimized, descr, location, reply) ==
    IF location.exc # "none" THEN SelectorRaises(location.exc, 0)
    ELSE WithWeatherApis(optimized, descr, location.loc,
                         weather_apis(optimized, location.loc), reply)

\* reply is what the collaborator answers if it is called
identify_api_request_with_confidence(requests, descr, reply) ==
    WithLocation(optimize_for_tokens(requests), descr, location_in_query(descr),
                 reply)

-----------------------------------------------------------------------------
(* SpecSelect: the selector applied to an extracted candidate list.         *)

SelectPool ==
    { Entry("GET", "http://h/api/v2.5/items",
            <<Header("Content-Type", "application/json")>>),
      Entry("GET", "https://w.io/forecast/paris/",
            <<Header("Content-Type", "application/json")>>),
      Entry("GET", "https://w.io/api/rain.json",
            <<Header("Content-Type", "application/json")>>),
      \* a script that outscores the forecast request
      Entry("GET", "http://h/api/data/app.js",
            <<Header("Content-Type", "application/javascript")>>) }

SelectDescriptions ==
    {"", "get items", "Weather in Paris.", "weather in Oslo", "weather in ", "weather"}

ItemsAnswer == "{\"method\": \"GET\", \"url\": \"http://h/api/v2.5/items\"}"

SelectReplies ==
    { Raises,
      Answers("I could not find a matching request."),
      Answers("{\"method\": \"GET\", \"url\": \"http://h/api/items\"}\n\n0.9"),
      Answers(ItemsAnswer \o "\n\n0.9"),
      Answers(ItemsAnswer),
      Answers("{\"method\": \"GET\", \"url\": \"https://forecast.io/oslo\"}\n0.5"),
      Answers("{\"method\": \"GET\", \"url\": \"http://h/api/items\"\n0.9"),
      Answers("The best match is {GET http://h/api/items} with 0.8") }

InitSelect ==
    /\ request = 0
    /\ session_storage = EmptyDict
    /\ response = NoResponse
    /\ \E l \in Logs(SelectPool, MaxSelectLog) :
          api_requests = process_har_file(HarDocument(l)).value
    /\ description \in SelectDescriptions
    /\ result = NoResult
    /\ \E r \in SelectReplies : llm_reply = <<r>>
    /\ llm_calls = 0

\* the function returns or raises: the outcome is kept, its calls are counted
SelectorReturns(out) ==
    /\ result' = out
    /\ llm_calls' = llm_calls + out.calls

IdentifyApiRequestWithConfidence ==
    /\ result.exc = "idle"
    /\ SelectorReturns(
           identify_api_request_with_confidence(api_requests, description, llm_reply[1]))
    /\ UNCHANGED <<request, session_storage, response, api_requests, description,
                   llm_reply>>

NextSelect == IdentifyApiRequestWithConfidence

SpecSelect == InitSelect /\ [][NextSelect]_vars

SelectorDone == result.exc # "idle"

\* C2: on an empty candidate list the selector always ends in the
\* no-candidates error (ValueError "No API requests found in the HAR file"),
\* whatever the collaborator answers; it never returns a pair.
C2_EmptyListIsNoCandidates ==
    (SelectorDone /\ api_requests = <<>>) => result.exc = "ValueError"

\* C10: every confidence the selector returns lies in [0,1], whatever the
\* text of the collaborator's reply.
C10_ConfidenceInUnitInterval ==
    (SelectorDone /\ result.exc = "none") =>
        /\ ~Less(result.confidence, Fraction(0, 1))
        /\ ~Less(Fraction(1, 1), result.confidence)

\* the collaborator was called and the call failed, or its answer holds no
\* text from a first "{" to a last "}" that is JSON
NothingSelected ==
    /\ llm_calls = 1
    /\ \/ llm_reply[1].raises
       \/ ~HasJsonMatch(strip(llm_reply[1].content))
       \/ ~json_loads(JsonGroup(strip(llm_reply[1].content))).ok

\* C11: for a non-empty candidate list, when the collaborator call fails or no
\* parseable JSON object can be extracted from its answer, the selector raises
\* nothing and returns the first element of the budgeter's output with
\* confidence exactly 0.1.
C11_FallbackIsFirstBudgeted ==
    (SelectorDone /\ api_requests # <<>> /\ NothingSelected) =>
        /\ result.exc = "none"
        /\ result.request = optimize_for_tokens(api_requests)[1]
        /\ result.confidence = Fraction(1, 10)

\* a failed call on a list of two candidates that the budgeter reorders
C11_Witness ==
    /\ SelectorDone
    /\ Len(api_requests) = 2
    /\ llm_calls = 1
    /\ llm_reply[1].raises
    /\ optimize_for_tokens(api_requests)[1].url # api_requests[1].url

\* an answer with braces that is no JSON, on a non-empty list
C11_WitnessUnparseable ==
    /\ SelectorDone
    /\ api_requests # <<>>
    /\ llm_calls = 1
    /\ ~llm_reply[1].raises
    /\ HasJsonMatch(strip(llm_reply[1].content))
    /\ ~json_loads(JsonGroup(strip(llm_reply[1].content))).ok

-----------------------------------------------------------------------------
(* utils/curl_generator.py: generate_curl_command.                          *)

RECURSIVE Replace(_, _, _)
\* s.replace(old, new) for a one-character old
Replace(s, old, new) ==
    IF s = "" THEN ""
    ELSE (IF CharAt(s, 1) = old THEN new ELSE CharAt(s, 1))
         \o Replace(SubSeq(s, 2, Len(s)), old, new)

\* the keys of a dict as a list; a dict of the model keeps no insertion
\* order, so the list is one fixed order of its keys
KeyList(d) ==
    CHOOSE keys \in [1..Cardinality(DOMAIN d) -> DOMAIN d] :
        \A k \in DOMAIN d : \E i \in DOMAIN keys : keys[i] = k

SkippedHeaders == {"content-length", "host", "connection", "pragma", "cache-control"}

\* the "-H" lines: every header but the skipped ones
HeaderLines(headers, keys) ==
    LET Kept(name) == lower(name) \notin SkippedHeaders /\ ~StartsWith(name, ":")
        Line(name) == "  -H '" \o name \o ": "
                          \o Replace(headers[name], "'", "'\\''") \o "'"
        kept == SelectSeq(keys, Kept)
    IN [i \in DOMAIN kept |-> Line(kept[i])]

\* `-X METHOD`, inserted after the first element when the method is not GET
MethodLine(api_request) ==
    IF GetOr(api_request, "method", "GET") # "GET"
    THEN <<"  -X " \o GetOr(api_request, "method", "GET")>> ELSE <<>>

\* "curl 'url'", with the query parameters when the URL carries none
UrlLine(url, query_params, keys) ==
    IF keys # <<>> /\ ~Contains(url, "?")
    THEN "curl '" \o url \o "?"
             \o Join([i \in DOMAIN keys |-> keys[i] \o "=" \o query_params[keys[i]]], "&")
             \o "'"
    ELSE "curl '" \o url \o "'"

\* the lines for a request body with a non-empty text
BodyLines(body, lines_so_far) ==
    LET escaped_body == Replace(GetOr(body, "text", ""), "'", "'\\''")
        mime_type == lower(GetOr(body, "mime_type", ""))
        IsJsonHeader(line) ==
            Contains(line, "-H") /\ Contains(lower(line), "content-type: application/json")
    IN IF Contains(mime_type, "json")
       THEN (IF SelectSeq(lines_so_far, IsJsonHeader) # <<>> THEN <<>>
             ELSE <<"  -H 'Content-Type: application/json'">>)
            \o <<"  -d '" \o escaped_body \o "'">>
       ELSE IF Contains(mime_type, "form")
       THEN IF "params" \in DOMAIN body
            THEN [i \in DOMAIN body.params |->
                     "  --data-urlencode '" \o GetOr(body.params[i], "name", "") \o "="
                         \o GetOr(body.params[i], "value", "") \o "'"]
            ELSE <<"  --data-urlencode '" \o escaped_body \o "'">>
       ELSE <<"  -d '" \o escaped_body \o "'">>

CurlLines(api_request, first_lines) ==
    IF "body" \in DOMAIN api_request /\ GetOr(api_request.body, "text", "") # ""
    THEN first_lines \o BodyLines(api_request.body, first_lines)
    ELSE first_lines

\* the command for a request dict whose headers and query_params are dicts
generate_curl_command(api_request) ==
    Join(CurlLines(api_request,
                   <<UrlLine(GetOr(api_request, "url", ""),
                             GetOr(api_request, "query_params", EmptyDict),
                             KeyList(GetOr(api_request, "query_params", EmptyDict)))>>
                   \o MethodLine(api_request)
                   \o HeaderLines(GetOr(api_request, "headers", EmptyDict),
                                  KeyList(GetOr(api_request, "headers", EmptyDict)))),
         " \\\n")

-----------------------------------------------------------------------------
(* utils/api_info.py: extract_api_info.                                     *)

UnknownAuthentication ==
    [type |-> "unknown", location |-> "unknown", key |-> "unknown"]

\* the basic structure returned when the answer holds no JSON
UnknownInfo ==
    [parameters |-> <<>>,
     authentication |-> UnknownAuthentication,
     description |-> "No description available",
     usage_notes |-> "No usage notes available",
     response_format |-> "Unknown response format"]

\* the structure returned by the outer except
ErrorInfo ==
    [parameters |-> <<>>,
     authentication |-> UnknownAuthentication,
     description |-> "Error extracting API information",
     usage_notes |-> "No usage notes available",
     response_format |-> "Unknown response format"]

\* what the function returns: is_dict tells a dict from another JSON value
Info(value, is_dict, calls) == [value |-> value, is_dict |-> is_dict, calls |-> calls]

\* a regex fallback that hands back whatever the parser left
ExtractedInfoUnchecked(parsed) ==
    Info(Native(parsed.val), parsed.val.t = "dict", 1)

\* the regex fallback: json.loads(match.group(1)), else the basic structure
ExtractedInfo(parsed) ==
    IF parsed.ok THEN Info(Native(parsed.val), parsed.val.t = "dict", 1)
    ELSE Info(UnknownInfo, TRUE, 1)

\* json.loads(response_content), else the regex fallback
StrictInfo(content, parsed) ==
    IF parsed.ok THEN Info(Native(parsed.val), parsed.val.t = "dict", 1)
    ELSE IF HasJsonMatch(content) THEN ExtractedInfo(json_loads(JsonGroup(content)))
    ELSE Info(UnknownInfo, TRUE, 1)

InfoFromAnswer(content) == StrictInfo(content, json_loads(content))

\* a descriptor that issues its call a second time after a failure
extract_api_info_retried(api_request, reply) ==
    IF reply.raises THEN Info(ErrorInfo, TRUE, 2)
    ELSE InfoFromAnswer(strip(reply.content))

\* reply is what the collaborator answers to the call; a reply that raises
\* stands for every exception of the outer try block
extract_api_info(api_request, reply) ==
    IF reply.raises THEN Info(ErrorInfo, TRUE, 1)
    ELSE InfoFromAnswer(strip(reply.content))

-----------------------------------------------------------------------------
(* SpecDescribe: the descriptor applied to one request record.              *)

\* the objects analyze_api hands to the descriptor: stored candidates, an
\* object of the selector that matches no candidate, the not-found result
DescribedRequests ==
    {process_har_file(HarDocument(<<e>>)).value : e \in EntryPool}
        \cup {<<[method |-> "GET", url |-> "http://h/api/other"]>>,
               <<[confidence |-> [n |-> 0, d |-> 1]]>>}

DescribeReplies ==
    { Raises,
      Answers(""),
      Answers("This request lists the items of the catalogue."),
      Answers("{\"parameters\": [], \"description\": \"Lists items\"}"),
      Answers("Analysis: {\"description\": \"Searches the catalogue\"} as asked"),
      Answers("The request {GET /api/items} takes no parameters"),
      Answers("{\"description\": \"a\"} or {\"description\": \"b\"}"),
      Answers("{\"description\": \"Lists items\""),
      Answers("[1, 2]"),
      Answers("\"none\""),
      Answers("{}") }

InitDescribe ==
    /\ \E l \in DescribedRequests : l # <<>> /\ request = l[1]
    /\ session_storage = EmptyDict
    /\ response = NoResponse
    /\ api_requests = <<>>
    /\ description = ""
    /\ result = NoResult
    /\ \E r \in DescribeReplies : llm_reply = <<r>>
    /\ llm_calls = 0

\* the function returns: its value is kept and its call is counted
InfoReturns(out) ==
    /\ result' = out
    /\ llm_calls' = llm_calls + out.calls

ExtractApiInfo ==
    /\ "is_dict" \notin DOMAIN result
    /\ InfoReturns(extract_api_info(request, llm_reply[1]))
    /\ UNCHANGED <<request, session_storage, response, api_requests, description,
                   llm_reply>>

NextDescribe == ExtractApiInfo

SpecDescribe == InitDescribe /\ [][NextDescribe]_vars

DescribeDone == "is_dict" \in DOMAIN result

\* the call failed, or its answer is no JSON and holds no text from a first
\* "{" to a last "}" that is JSON
NothingDescribed ==
    \/ llm_reply[1].raises
    \/ /\ ~json_loads(strip(llm_reply[1].content)).ok
       /\ \/ ~HasJsonMatch(strip(llm_reply[1].content))
          \/ ~json_loads(JsonGroup(strip(llm_reply[1].content))).ok

\* C14: the descriptor returns a value for every request record and every
\* collaborator outcome, and when the call fails, or neither strict parsing
\* nor the extraction of an embedded JSON object succeeds, the value is the
\* fixed structure with parameters = [] and authentication type, location and
\* key all "unknown".
C14_DescriptorNeverRaises ==
    DescribeDone =>
        /\ "value" \in DOMAIN result
        /\ NothingDescribed =>
              /\ result.is_dict
              /\ "parameters" \in DOMAIN result.value
              /\ result.value.parameters = <<>>
              /\ "authentication" \in DOMAIN result.value
              /\ result.value.authentication
                    = [type |-> "unknown", location |-> "unknown", key |-> "unknown"]

\* an answer with braces around text that is no JSON
C14_Witness ==
    /\ DescribeDone
    /\ ~llm_reply[1].raises
    /\ HasJsonMatch(strip(llm_reply[1].content))
    /\ ~json_loads(JsonGroup(strip(llm_reply[1].content))).ok
    /\ result.value.description = "No description available"

-----------------------------------------------------------------------------
(* routes/analyze.py: analyze_api.                                          *)

SortKeywords == {"flight", "track", "playback", "data", "map"}

IsJavascriptRequest(req) ==
    \/ EndsWith(GetOr(req, "url", ""), ".js")
    \/ Contains(lower(GetOr(req, "response_content_type", "")), "javascript")

\* the key of the keyword re-sort
SortKey(req) ==
    << IF IsJavascriptRequest(req) THEN 1 ELSE 0,
       IF \/ Contains(GetOr(req, "url", ""), "/api/")
          \/ Contains(GetOr(req, "url", ""), "/data/")
          \/ Contains(GetOr(req, "url", ""), "/common/") THEN 0 ELSE 1,
       IF Contains(lower(GetOr(req, "response_content_type", "")), "json") THEN 0 ELSE 1,
       -1 * GetOr(req, "relevance_score", 0) >>

\* tuple comparison a <= b
KeyNotGreater(a, b) ==
    \/ a = b
    \/ \E i \in 1..4 : a[i] < b[i] /\ \A j \in 1..(i - 1) : a[j] = b[j]

\* list.insert so that the list stays sorted by ascending key and x goes
\* after every element whose key is not greater
InsertByKey(sorted, x) ==
    LET n == Cardinality({i \in DOMAIN sorted : KeyNotGreater(SortKey(sorted[i]), SortKey(x))})
    IN SubSeq(sorted, 1, n) \o <<x>> \o SubSeq(sorted, n + 1, Len(sorted))

RECURSIVE sorted_requests(_)
\* sorted(processed_har, key=...): ascending and stable
sorted_requests(list) ==
    IF list = <<>> THEN <<>>
    ELSE InsertByKey(sorted_requests(SubSeq(list, 1, Len(list) - 1)), list[Len(list)])

\* processed_har as handed to the identification
Prefiltered(processed_har, descr) ==
    IF \E keyword \in SortKeywords : Contains(lower(descr), keyword)
    THEN sorted_requests(processed_har) ELSE processed_har

\* the result the identification hands back when the gate rejects the capture
NotFound == [confidence |-> Fraction(0, 1)]

\* what identify_api_request returned or raised: the object, the calls issued,
\* whether the gate let the capture through, whether the selector ran and the
\* confidence it gave
Identified(exc, req, calls, relevant, selector_ran, confidence) ==
    [exc |-> exc, request |-> req, calls |-> calls, relevant |-> relevant,
     selector_ran |-> selector_ran, confidence |-> confidence]

AfterSelector(selection, gate_calls) ==
    Identified(selection.exc, selection.request, gate_calls + selection.calls,
               TRUE, TRUE, selection.confidence)

AfterGate(processed_har, descr, replies, gate) ==
    IF gate.value
    THEN AfterSelector(
             identify_api_request_with_confidence(processed_har, descr,
                                                  replies.selector),
             gate.calls)
    ELSE Identified("none", NotFound, gate.calls, FALSE, FALSE, Fraction(0, 1))

\* the gate, then the selector, whose request object is handed back
identify_api_request(processed_har, descr, replies) ==
    AfterGate(processed_har, descr, replies,
              verify_har_relevance(processed_har, descr, replies.gate))

IsFlightApi(req) ==
    /\ Contains(GetOr(req, "url", ""), "/api/")
    /\ Contains(lower(GetOr(req, "url", "")), "flight")
    /\ ~EndsWith(GetOr(req, "url", ""), ".js")

\* the additional validation for flight data APIs
FlightOverride(processed_har, descr, api_request) ==
    IF /\ Contains(lower(descr), "flight") \/ Contains(lower(descr), "track")
       /\ IsJavascriptRequest(api_request)
       /\ SelectSeq(processed_har, IsFlightApi) # <<>>
    THEN SelectSeq(processed_har, IsFlightApi)[1]
    ELSE api_request

\* str.isdigit() on text of ASCII characters
isdigit(s) == s # "" /\ \A i \in 1..Len(s) : CharAt(s, i) \in Digits

\* the check of an all-digit body against the image URLs of the capture
validation_warnings(processed_har, api_request) ==
    IF /\ "body" \in DOMAIN api_request
       /\ isdigit(strip(GetOr(api_request.body, "text", "")))
       /\ \E i \in DOMAIN processed_har :
             /\ Contains(GetOr(processed_har[i], "response_content_type", ""), "image")
             /\ Contains(processed_har[i].url, strip(api_request.body.text))
       /\ ~\E i \in DOMAIN processed_har :
             /\ processed_har[i].url = api_request.url
             /\ processed_har[i] # api_request
             /\ Contains(GetOr(GetOr(processed_har[i], "body", EmptyDict), "text", ""),
                         strip(api_request.body.text))
    THEN <<"The ID '" \o strip(api_request.body.text)
              \o "' may have been incorrectly extracted from image URLs rather than actual request data">>
    ELSE <<>>

SameEndpoint(req, api_request) ==
    /\ Get(req, "url") = Get(api_request, "url")
    /\ Get(req, "method") = Get(api_request, "method")

\* the original request: the first of the list with the url and the method
\* of api_request, else api_request
Reconciled(processed_har, api_request) ==
    IF \E i \in DOMAIN processed_har : SameEndpoint(processed_har[i], api_request)
    THEN processed_har[CHOOSE i \in DOMAIN processed_har :
                           /\ SameEndpoint(processed_har[i], api_request)
                           /\ \A j \in 1..(i - 1) :
                                 ~SameEndpoint(processed_har[j], api_request)]
    ELSE api_request

\* what the handler leaves: its response, the list it worked on, the outcome
\* of the identification and the calls issued
Analysis(resp, processed_har, identified, calls) ==
    [response |-> resp, processed_har |-> processed_har,
     identified |-> identified, calls |-> calls]

ServerError(message) ==
    [status |-> 500, detail |-> "Error analyzing API requests: " \o message]

ExceptionText(exc) ==
    IF exc = "ValueError" THEN "No API requests found in the HAR file"
    ELSE IF exc = "IndexError" THEN "list index out of range"
    ELSE exc

\* lines 105-121: the command, the description and the response
Described(processed_har, identified, api_request, warnings, info) ==
    IF warnings # <<>> /\ ~info.is_dict
    THEN Analysis(ServerError("list indices must be integers or slices, not str"),
                  processed_har, identified, identified.calls + info.calls)
    ELSE Analysis([status |-> 200,
                   curl_command |-> generate_curl_command(api_request),
                   api_request |-> api_request,
                   api_info |-> IF warnings # <<>>
                                THEN [validation_warnings |-> warnings] @@ info.value
                                ELSE info.value,
                   message |-> "API request identified successfully",
                   total_api_count |-> Len(processed_har)],
                  processed_har, identified, identified.calls + info.calls)

\* lines 92-109 for the request left by the flight validation
Handed(processed_har, identified, api_request, replies) ==
    Described(processed_har, identified,
              Reconciled(processed_har, api_request),
              validation_warnings(processed_har, api_request),
              extract_api_info(Reconciled(processed_har, api_request),
                               replies.descriptor))

\* the try block once identify_api_request has returned or raised
AfterIdentification(processed_har, descr, replies, identified) ==
    IF identified.exc # "none"
    THEN Analysis(ServerError(ExceptionText(identified.exc)),
                  processed_har, identified, identified.calls)
    ELSE Handed(processed_har, identified,
                FlightOverride(processed_har, descr, identified.request), replies)

AnalyzeSession(processed_har, descr, replies) ==
    AfterIdentification(processed_har, descr, replies,
                        identify_api_request(processed_har, descr, replies))

\* a handler that reads the list of the first session of the store
SessionListOfFirst(store, session_id) ==
    store[CHOOSE k \in DOMAIN store : \A j \in DOMAIN store : k <= j].processed_har

\* session_storage[request.session_id]["processed_har"]
SessionList(store, session_id) == store[session_id].processed_har

\* req is [session_id, description]; replies are the collaborator's answers
\* to the gate, the selector and the descriptor, should they call it
analyze_api(req, store, replies) ==
    IF req.session_id \notin DOMAIN store
    THEN Analysis([status |-> 404,
                   detail |-> "Session not found. Please upload a HAR file first."],
                  <<>>, Identified("idle", PyNone, 0, FALSE, FALSE, Fraction(0, 1)), 0)
    ELSE AnalyzeSession(Prefiltered(SessionList(store, req.session_id),
                                    req.description),
                        req.description, replies)

\* a handler that writes the list it worked on back to the session
StoreAfterAnalysisResorted(store, session_id, processed_har) ==
    IF session_id \in DOMAIN store
    THEN [store EXCEPT ![session_id] = [processed_har |-> processed_har]]
    ELSE store

\* the store the handler leaves: line 58 rebinds the handler's own name
\* processed_har to the sorted copy, and no line writes to session_storage or
\* to a stored record
StoreAfterAnalysis(store, session_id, processed_har) == store

-----------------------------------------------------------------------------
(* The selector's own choices and their reconciliation (specification       *)
(* SpecSelect).                                                             *)

\* the selector returned without a call: the weather shortcut
ShortcutTaken == SelectorDone /\ result.exc = "none" /\ llm_calls = 0

\* the selector returned its fallback
FallbackTaken == SelectorDone /\ result.exc = "none" /\ NothingSelected

\* C26: on every selector path that does not use the collaborator's JSON (the
\* weather shortcut at confidence 0.95, 0.3 or 0.7 and the fallback at 0.1)
\* the returned object is an element of the budgeter's output, its method
\* and url are those of a candidate of the input list, and reconciliation
\* finds an original record of the list.
C26_OwnChoiceIsCandidate ==
    (ShortcutTaken \/ FallbackTaken) =>
        /\ \E j \in DOMAIN optimize_for_tokens(api_requests) :
              result.request = optimize_for_tokens(api_requests)[j]
        /\ \E i \in DOMAIN api_requests :
              /\ SameEndpoint(api_requests[i], result.request)
              /\ Reconciled(api_requests, result.request).url = api_requests[i].url
        /\ \E i \in DOMAIN api_requests :
              Reconciled(api_requests, result.request) = api_requests[i]
        /\ ShortcutTaken =>
              result.confidence \in {Fraction(95, 100), Fraction(3, 10), Fraction(7, 10)}
        /\ FallbackTaken => result.confidence = Fraction(1, 10)

\* the shortcut chose, without a location, the second of two candidates
C26_Witness ==
    /\ ShortcutTaken
    /\ result.confidence = Fraction(7, 10)
    /\ Len(api_requests) = 2
    /\ Reconciled(api_requests, result.request) = api_requests[2]
    /\ api_requests[2] # api_requests[1]

\* the shortcut chose a request for another location
C26_WitnessOtherLocation ==
    /\ ShortcutTaken
    /\ result.confidence = Fraction(3, 10)
    /\ "relevance_score" \in DOMAIN Reconciled(api_requests, result.request)

-----------------------------------------------------------------------------
(* SpecAnalyze: captures are uploaded and analysed, in any order.           *)

JsonType == <<Header("Content-Type", "application/json")>>

SearchEntry(text) ==
    EntryWithBody("POST", "http://h/api/search", JsonType,
                  "application/x-www-form-urlencoded", text)

ItemEntry(id) == Entry("GET", "http://h/api/items/" \o id, JsonType)

\* the captures of the model: an empty one, two requests to one endpoint,
\* a script that outscores the endpoint it calls, and five requests
AnalyzeLogs ==
    << <<>>,
       <<SearchEntry("q=1"), SearchEntry("q=2")>>,
       <<Entry("GET", "http://h/api/data/flight/app.js",
               <<Header("Content-Type", "application/javascript")>>),
         Entry("GET", "http://h/api/flight/42", JsonType)>>,
       <<ItemEntry("1"), ItemEntry("2"), ItemEntry("3"), ItemEntry("4"),
         SearchEntry("q=1")>> >>

AnalyzeDescriptions == {"second search", "track flight 42", "weather in "}

GateAnswers == {Answers("YES"), Answers("NO")}

SelectorAnswers ==
    { Raises,
      Answers("{\"method\": \"POST\", \"url\": \"http://h/api/search\", "
                  \o "\"body\": {\"mime_type\": \"application/x-www-form-urlencoded\", "
                  \o "\"text\": \"q=2\", \"params\": [], \"format\": \"form\"}}\n\n0.9"),
      Answers("{\"method\": \"GET\", \"url\": \"http://h/api/data/flight/app.js\"}\n\n0.8"),
      Answers("{\"method\": \"GET\", \"url\": \"http://h/api/other\"}\n\n0.2") }

DescriptorAnswers ==
    {Raises, Answers("Analysis: {\"description\": \"Searches the catalogue\"}")}

\* the answers the collaborator gives to the prompts of one analysis
AnalyzeReplies ==
    [gate : GateAnswers, selector : SelectorAnswers, descriptor : DescriptorAnswers]

InitAnalyze ==
    /\ request = 0
    /\ session_storage = EmptyDict
    /\ response = NoResponse
    /\ result = NoResult
    /\ Idle

\* POST /api/upload-har with one of the logs while the store holds fewer than
\* cap sessions; uuid4 draws an id that no session has
UploadOf(logs, ids, cap) ==
    /\ Cardinality(DOMAIN session_storage) < cap
    /\ \E i \in DOMAIN logs, session_id \in ids \ DOMAIN session_storage :
          /\ request' = [filename |-> "capture.har", content |-> HarDocument(logs[i])]
          /\ Returns(upload_har([filename |-> "capture.har",
                                 content |-> HarDocument(logs[i])],
                                session_storage, session_id))
    /\ api_requests' = <<>>
    /\ description' = ""
    /\ llm_reply' = <<>>
    /\ llm_calls' = 0

UploadCapture == UploadOf(AnalyzeLogs, SessionIds, MaxSessions)

\* the handler returns: the response is sent, the store is as it left it
AnalysisReturns(out, session_id) ==
    /\ response' = out.response
    /\ api_requests' = out.processed_har
    /\ result' = out.identified
    /\ llm_calls' = out.calls
    /\ session_storage' = StoreAfterAnalysis(session_storage, session_id,
                                             out.processed_har)

\* POST /api/analyze; llm_calls counts the calls of this analysis
AnalyzeOf(ids, descriptions, all_replies) ==
    \E session_id \in ids, descr \in descriptions, replies \in all_replies :
        /\ request' = [session_id |-> session_id, description |-> descr]
        /\ description' = descr
        /\ llm_reply' = replies
        /\ AnalysisReturns(analyze_api([session_id |-> session_id, description |-> descr],
                                       session_storage, replies),
                           session_id)

AnalyzeApi == AnalyzeOf(SessionIds, AnalyzeDescriptions, AnalyzeReplies)

NextAnalyze == UploadCapture \/ AnalyzeApi

SpecAnalyze == InitAnalyze /\ [][NextAnalyze]_vars

\* an analysis has answered with a command
Analyzed == response.status = 200 /\ "curl_command" \in DOMAIN response

\* the selector's object carries no body, or the body text of req
SameBodyText(req, selected) ==
    "body" \in DOMAIN selected =>
        /\ "body" \in DOMAIN req
        /\ GetOr(req.body, "text", "") = GetOr(selected.body, "text", "")

\* C1: whenever the selector's output object has the method and the url of an
\* entry E of the candidate list (as re-sorted by the analyze step), the
\* request handed on to command generation and description is E itself, not
\* a different entry.  Where several entries share the method and the url,
\* E ranges over those whose body text the selector's object carries.
C1_HandedRequestIsSelectedEntry ==
    (Analyzed /\ result.selector_ran) =>
        \A i \in DOMAIN api_requests :
            (/\ SameEndpoint(api_requests[i], result.request)
             /\ SameBodyText(api_requests[i], result.request)) =>
                response.api_request = api_requests[i]

\* the last request handled was an analysis of a stored session
AnalysisEnded == "selector_ran" \in DOMAIN result /\ result.exc # "idle"

\* the response tells the caller that the selection is weak
LowConfidenceFlag ==
    \/ "confidence" \in DOMAIN response
    \/ "warning" \in DOMAIN response
    \/ "validation_warnings" \in DOMAIN response.api_info

\* C12: every analysis outcome is a fatal error or a result that carries the
\* selection's confidence, with a warning annotation whenever the confidence
\* is below 0.4; a candidate of the selector's fallback (0.1) is never
\* returned as a plain success.
C12_LowConfidenceIsFlagged ==
    (AnalysisEnded /\ result.selector_ran /\ response.status = 200) =>
        /\ "confidence" \in DOMAIN response
        /\ response.confidence = result.confidence
        /\ Less(result.confidence, Fraction(4, 10)) => LowConfidenceFlag

\* C13: the gate is evaluated before the selector is invoked, and when the
\* gate returns false the selector is not invoked and the result contains no
\* replay command.
C13_GateRejectionHasNoCommand ==
    AnalysisEnded =>
        /\ result.selector_ran => result.relevant
        /\ ~result.relevant =>
              /\ ~result.selector_ran
              /\ "curl_command" \notin DOMAIN response

\* the last request handled was an analysis, answered or not found
AnalysisHandled == "selector_ran" \in DOMAIN result

\* every stored list is as the extractor wrote it for one of the captures
StoredAsUploaded ==
    \A k \in DOMAIN session_storage :
        \E i \in DOMAIN AnalyzeLogs :
            session_storage[k].processed_har
                = process_har_file(HarDocument(AnalyzeLogs[i])).value

\* C17: after any sequence of analyze calls on a session, whatever the
\* descriptions and the collaborator's answers, the candidate list stored for
\* the session is unchanged: the same records with the same field values in
\* the same order as written at upload.
C17_AnalysisLeavesStore ==
    /\ []StoredAsUploaded
    /\ [][AnalysisHandled' => session_storage' = session_storage]_vars

\* an analysis that worked on a re-sorted copy of the stored list and handed
\* on one of its records
C17_Witness ==
    /\ AnalysisEnded
    /\ response.status = 200
    /\ Len(api_requests) = 2
    /\ api_requests # session_storage[request.session_id].processed_har
    /\ response.api_request = api_requests[1]

\* the calls of the last analysis, stage by stage
GateCalls == verify_har_relevance(api_requests, description, llm_reply.gate).calls
SelectorCalls == result.calls - GateCalls
DescriptorCalls == llm_calls - result.calls

\* the selector's call failed: its fallback is the first budgeted request at
\* confidence 0.1, or the ValueError of an empty list, which ends the
\* analysis with an error before the descriptor runs
SelectorFellBack ==
    IF api_requests = <<>>
    THEN /\ result.exc = "ValueError"
         /\ response.status = 500
         /\ DescriptorCalls = 0
    ELSE /\ result.exc = "none"
         /\ result.request = optimize_for_tokens(api_requests)[1]
         /\ result.confidence = Fraction(1, 10)

\* the descriptor's call failed: its fallback is the error description
DescriptorFellBack ==
    /\ response.status = 200
    /\ response.api_info.description = "Error extracting API information"
    /\ response.api_info.parameters = <<>>

\* C25: no stage retries a reasoning call.  In one analysis the selector
\* issues at most one call and the descriptor at most one, a failed call is
\* followed by the stage's fallback, and every analysis ends with a result
\* or an error after no more calls than one for each stage.
C25_NoStageRetries ==
    AnalysisHandled =>
        /\ response.status \in {200, 404, 500}
        /\ ~AnalysisEnded => llm_calls = 0
        /\ AnalysisEnded =>
              /\ GateCalls \in {0, 1}
              /\ SelectorCalls \in {0, 1}
              /\ DescriptorCalls \in {0, 1}
              /\ llm_calls = GateCalls + SelectorCalls + DescriptorCalls
              /\ ~result.selector_ran => SelectorCalls = 0
              /\ (SelectorCalls = 1 /\ llm_reply.selector.raises) => SelectorFellBack
              /\ (DescriptorCalls = 1 /\ llm_reply.descriptor.raises)
                     => DescriptorFellBack

\* an analysis in which the gate's call succeeded and the calls of the
\* selector and of the descriptor both failed
C25_Witness ==
    /\ AnalysisEnded
    /\ GateCalls = 1
    /\ SelectorCalls = 1
    /\ llm_reply.selector.raises
    /\ DescriptorCalls = 1
    /\ llm_reply.descriptor.raises
    /\ llm_calls = 3
    /\ response.status = 200

-----------------------------------------------------------------------------
(* SpecSessions: uploads and analyses of several sessions, in any order.    *)

SessionLogs ==
    << <<>>,
       <<SearchEntry("q=1")>>,
       <<Entry("GET", "http://h/api/data/flight/app.js",
               <<Header("Content-Type", "application/javascript")>>),
         ItemEntry("1")>> >>

SessionDescriptions == {"get items", "map data"}

SessionReplies ==
    { [gate |-> Raises, selector |-> Raises, descriptor |-> Raises],
      [gate |-> Answers("YES"),
       selector |-> Answers("{\"method\": \"GET\", \"url\": \"http://h/api/items/1\"}\n0.9"),
       descriptor |-> Answers("{\"description\": \"Lists items\"}")] }

\* the session ids of the model
CaptureIds == 1..MaxCaptures

UploadSession == UploadOf(SessionLogs, CaptureIds, MaxCaptures)

AnalyzeStored == AnalyzeOf(CaptureIds, SessionDescriptions, SessionReplies)

NextSessions == UploadSession \/ AnalyzeStored

SpecSessions == InitAnalyze /\ [][NextSessions]_vars

\* a and b hold the same records, each as often
SameRecords(a, b) ==
    /\ Len(a) = Len(b)
    /\ \A i \in DOMAIN a :
          Cardinality({j \in DOMAIN a : a[j] = a[i]})
              = Cardinality({j \in DOMAIN b : b[j] = a[i]})

\* an analysis of a stored session worked on the list stored for its id
ReadsOwnList ==
    (AnalysisHandled /\ request.session_id \in DOMAIN session_storage) =>
        /\ response.status # 404
        /\ SameRecords(api_requests,
                       session_storage[request.session_id].processed_har)
        /\ (response.status = 200 =>
                response.total_api_count
                    = Len(session_storage[request.session_id].processed_har))

\* an analysis of an id that was never stored is not found, without a call
UnknownIsNotFound ==
    (AnalysisHandled /\ request.session_id \notin DOMAIN session_storage) =>
        /\ response.status = 404
        /\ llm_calls = 0

\* C18: under any interleaving of uploads and analyses across sessions, an
\* analysis of a session whose upload completed earlier reads exactly the
\* list that upload stored (never another session's, never not-found), a
\* stored session is never removed or overwritten by a later upload, and an
\* analysis of an id that was never stored yields not-found without any
\* reasoning call.
C18_SessionsAreIndependent ==
    /\ [](ReadsOwnList /\ UnknownIsNotFound)
    /\ [][\A k \in DOMAIN session_storage :
              /\ k \in DOMAIN session_storage'
              /\ session_storage'[k] = session_storage[k]]_vars

\* two sessions with different lists, the second analysed with calls issued
C18_Witness ==
    /\ DOMAIN session_storage = {1, 2}
    /\ session_storage[1] # session_storage[2]
    /\ session_storage[1].processed_har # <<>>
    /\ AnalysisHandled
    /\ request.session_id = 2
    /\ response.status = 200
    /\ llm_calls > 0
    /\ SameRecords(api_requests, session_storage[2].processed_har)

-----------------------------------------------------------------------------
(* SpecUploads: files of any kind are uploaded one after the other.         *)

\* what the uploaded files hold: bytes that are no text, text that is no
\* JSON, JSON that is no log, and logs
UploadContents ==
    << MalformedContents[1],
       MalformedContents[2],
       MalformedContents[3],
       OddContents[2],
       HarDocument(<<>>),
       HarDocument(<<ItemEntry("1")>>),
       HarDocument(<<SearchEntry("q=1"), ItemEntry("2")>>) >>

\* request is one of the files under either name
IsUploadedFile(req) ==
    \E f \in Filenames, i \in DOMAIN UploadContents :
        req = [filename |-> f, content |-> UploadContents[i]]

\* the first file is on its way and nothing is stored
InitUploads ==
    /\ IsUploadedFile(request)
    /\ session_storage = EmptyDict
    /\ response = NoResponse
    /\ result = NoResult
    /\ Idle

\* POST /api/upload handles the file that is on its way, uuid4 drawing an id
\* that no session has, and the next file is sent
UploadFile ==
    /\ Cardinality(DOMAIN session_storage) < MaxCaptures
    /\ \E session_id \in CaptureIds \ DOMAIN session_storage :
          Returns(upload_har(request, session_storage, session_id))
    /\ IsUploadedFile(request')
    /\ UNCHANGED <<api_requests, description, llm_reply, llm_calls>>

NextUploads == UploadFile

SpecUploads == InitUploads /\ [][NextUploads]_vars

\* the upload of req fails: a wrong name, bytes that cannot be parsed, or an
\* extraction that raises
FailingUpload(req) ==
    \/ ~EndsWith(req.filename, ".har")
    \/ ~req.content.utf8
    \/ ~req.content.doc.ok
    \/ process_har_file(req.content).exc # "none"

\* the step leaves every session as it was
SessionsKept ==
    \A k \in DOMAIN session_storage :
        /\ k \in DOMAIN session_storage'
        /\ session_storage'[k] = session_storage[k]

\* the step adds exactly one key, for the list extracted from the file
OneSessionAdded ==
    /\ SessionsKept
    /\ Cardinality(DOMAIN session_storage') = Cardinality(DOMAIN session_storage) + 1
    /\ response'.session_id \in DOMAIN session_storage' \ DOMAIN session_storage
    /\ session_storage'[response'.session_id].processed_har
           = process_har_file(request.content).value

\* C27: a failed upload leaves the session store unchanged (no session is
\* created and none is modified) when the file name does not end in .har,
\* the content cannot be parsed or the extraction raises; a session is
\* stored only by an upload whose extraction completed, which adds exactly
\* one new key.
C27_FailedUploadLeavesStore ==
    [][IF FailingUpload(request)
       THEN /\ session_storage' = session_storage
            /\ response'.status \in {400, 500}
       ELSE /\ response'.status = 200
            /\ OneSessionAdded]_vars

\* an extraction has raised after a session was stored
C27_Witness ==
    /\ DOMAIN session_storage # {}
    /\ \E k \in DOMAIN session_storage : session_storage[k].processed_har # <<>>
    /\ response.status = 500
    /\ result.exc \in {"UnicodeDecodeError", "AttributeError"}

\* a file with a wrong name was turned away after a session was stored
C27_WitnessWrongName ==
    /\ DOMAIN session_storage # {}
    /\ response.status = 400
    /\ response.detail = "File must be a .har file"

-----------------------------------------------------------------------------
(* routes/test.py: test_api.                                                *)

ShlexError(message) == [ok |-> FALSE, parts |-> <<>>, error |-> message]

\* the first position from i on whose character is in chars, Len(s) + 1 when
\* there is none
NextOf(s, i, chars) ==
    CHOOSE j \in i..(Len(s) + 1) :
        /\ j = Len(s) + 1 \/ CharAt(s, j) \in chars
        /\ \A k \in i..(j - 1) : CharAt(s, k) \notin chars

RECURSIVE ShlexScan(_, _, _, _, _, _)
\* shlex.split(s), POSIX rules: mode is "none" outside quotes, "single" or
\* "double" inside; tok is the token read so far, started whether there is
\* one, acc the tokens before it.  Characters with no meaning in the mode are
\* read in one run.  A backslash outside quotes makes the next character, a
\* newline too, part of a token.
ShlexScan(s, i, mode, tok, started, acc) ==
    IF i > Len(s)
    THEN IF mode # "none" THEN ShlexError("No closing quotation")
         ELSE [ok |-> TRUE,
               parts |-> IF started THEN Append(acc, tok) ELSE acc,
               error |-> ""]
    ELSE IF mode = "single"
    THEN LET j == NextOf(s, i, {"'"})
         IN ShlexScan(s, j + 1, IF j > Len(s) THEN "single" ELSE "none",
                      tok \o SubSeq(s, i, j - 1), TRUE, acc)
    ELSE IF mode = "double"
    THEN LET j == NextOf(s, i, {"\"", "\\"})
             read == tok \o SubSeq(s, i, j - 1)
         IN IF j > Len(s) THEN ShlexScan(s, j, "double", read, TRUE, acc)
            ELSE IF CharAt(s, j) = "\""
            THEN ShlexScan(s, j + 1, "none", read, TRUE, acc)
            ELSE IF j + 1 > Len(s) THEN ShlexError("No escaped character")
            ELSE IF CharAt(s, j + 1) \in {"\"", "\\"}
            THEN ShlexScan(s, j + 2, "double", read \o CharAt(s, j + 1), TRUE, acc)
            ELSE ShlexScan(s, j + 2, "double",
                           read \o "\\" \o CharAt(s, j + 1), TRUE, acc)
    ELSE LET j == NextOf(s, i, Whitespace \cup {"'", "\"", "\\"})
             read == tok \o SubSeq(s, i, j - 1)
             begun == started \/ j > i
         IN IF j > Len(s) THEN ShlexScan(s, j, "none", read, begun, acc)
            ELSE IF CharAt(s, j) \in Whitespace
            THEN ShlexScan(s, j + 1, "none", "", FALSE,
                           IF begun THEN Append(acc, read) ELSE acc)
            ELSE IF CharAt(s, j) = "'"
            THEN ShlexScan(s, j + 1, "single", read, TRUE, acc)
            ELSE IF CharAt(s, j) = "\""
            THEN ShlexScan(s, j + 1, "double", read, TRUE, acc)
            ELSE IF j + 1 > Len(s) THEN ShlexError("No escaped character")
            ELSE ShlexScan(s, j + 2, "none", read \o CharAt(s, j + 1), TRUE, acc)

shlex_split(s) == ShlexScan(s, 1, "none", "", FALSE, <<>>)

RECURSIVE LStripChars(_, _)
\* s.lstrip(chars)
LStripChars(s, chars) ==
    IF s # "" /\ CharAt(s, 1) \in chars
    THEN LStripChars(SubSeq(s, 2, Len(s)), chars) ELSE s

\* part.strip('"\'')
StripQuotes(part) == RStripChars(LStripChars(part, {"\"", "'"}), {"\"", "'"})

\* parts.index(x) + 1 for an x that is in parts
IndexOf(parts, x) ==
    CHOOSE i \in DOMAIN parts : parts[i] = x /\ \A j \in 1..(i - 1) : parts[j] # x

IsIn(parts, x) == \E i \in DOMAIN parts : parts[i] = x

\* the argument after the first occurrence of flag, when there is one
ArgumentOf(parts, flag) ==
    IF IsIn(parts, flag) /\ IndexOf(parts, flag) + 1 <= Len(parts)
    THEN Some(parts[IndexOf(parts, flag) + 1]) ELSE None

\* method = "GET", replaced by the argument of -X
ParsedMethod(parts) ==
    IF ArgumentOf(parts, "-X") # None THEN ArgumentOf(parts, "-X")[1] ELSE "GET"

\* the name of the header that the argument at i + 1 of a "-H" at i sets,
\* "" when it sets none
HeaderKeyAt(parts, i) ==
    LET header == StripQuotes(parts[i + 1])
        key == strip(SubSeq(header, 1, Find(header, ":") - 1))
    IN IF ~Contains(header, ":") THEN ""
       ELSE IF StartsWith(key, ":") \/ key = "" THEN ""
       ELSE IF lower(key) = "accept-encoding" THEN ""
       ELSE key

HeaderValueAt(parts, i) ==
    LET header == StripQuotes(parts[i + 1])
    IN strip(SubSeq(header, Find(header, ":") + 1, Len(header)))

\* the headers dict after the loop over the parts: a later -H of a name
\* overwrites an earlier one
ParsedHeaders(parts) ==
    LET at == {i \in DOMAIN parts :
                  /\ parts[i] = "-H"
                  /\ i + 1 <= Len(parts)
                  /\ HeaderKeyAt(parts, i) # ""}
    IN [k \in {HeaderKeyAt(parts, i) : i \in at} |->
           HeaderValueAt(parts, CHOOSE i \in at :
                                    /\ HeaderKeyAt(parts, i) = k
                                    /\ \A j \in at : HeaderKeyAt(parts, j) = k => j <= i)]

\* data = None, replaced by the argument of -d
ParsedData(parts) ==
    IF ArgumentOf(parts, "-d") # None
    THEN Some(StripQuotes(ArgumentOf(parts, "-d")[1])) ELSE None

\* url = parts[-1].strip('"\'')
ParsedUrl(parts) == StripQuotes(parts[Len(parts)])

\* lines 36-74 for a command that splits into at least one part
ParsedCommand(parts) ==
    [url |-> ParsedUrl(parts),
     method |-> ParsedMethod(parts),
     headers |-> ParsedHeaders(parts),
     data |-> ParsedData(parts)]

NothingParsed == [url |-> "", method |-> "", headers |-> EmptyDict, data |-> None]

SupportedMethods == {"GET", "POST", "PUT", "DELETE"}

\* the 500 of the handler's "except Exception"
ExecutionError(message) ==
    [status |-> 500, detail |-> "Error executing API request: " \o message]

\* str(e) of the HTTPException raised for the method: the status and the
\* detail where the exception class defines __str__, the empty string where
\* it does not
HttpExceptionTexts(method) ==
    {"400: Unsupported HTTP method: " \o method, ""}

\* what the handler leaves: its response, the exception raised inside the try
\* block, whether a client method was called, and what the parser read
Tested(resp, exc, issued, parsed) ==
    [response |-> resp,
     result |-> [exc |-> exc, issued |-> issued] @@ parsed]

\* the client is reached at an http or https URL
IsHttpUrl(url) == StartsWith(url, "http://") \/ StartsWith(url, "https://")

\* lines 76-87 and 126-133: the request is made, or the method is refused
\* inside the try block, whose handler turns every exception into a 500.
\* answers says whether the remote end answers; text is str(e)
Requested(parsed, answers, text) ==
    IF upper(parsed.method) \in SupportedMethods
    THEN IF answers /\ IsHttpUrl(parsed.url)
         THEN Tested([status |-> 200], "none", TRUE, parsed)
         ELSE Tested(ExecutionError("request failed"), "HTTPError", TRUE, parsed)
    ELSE Tested(ExecutionError(text), "HTTPException", FALSE, parsed)

\* the try block once shlex.split has returned or raised
AfterSplit(split, answers, text) ==
    IF ~split.ok
    THEN Tested(ExecutionError(split.error), "ValueError", FALSE, NothingParsed)
    ELSE IF split.parts = <<>>
    THEN Tested(ExecutionError("list index out of range"), "IndexError", FALSE,
                NothingParsed)
    ELSE Requested(ParsedCommand(split.parts), answers, text)

test_api(curl_command, answers, text) ==
    AfterSplit(shlex_split(curl_command), answers, text)

-----------------------------------------------------------------------------
(* SpecReplay: a command is generated for a stored record, or written by    *)
(* hand, and sent to the test endpoint.                                     *)

ReplayMethods == {"GET", "POST", "PUT", "DELETE", "PATCH"}

ReplayHeaders ==
    { <<>>,
      <<Header("Accept", "*/*")>>,
      <<Header("Host", "h"), Header("Accept-Encoding", "gzip"),
        Header("X-Note", "it's")>> }

\* postData of the request, if it has one
ReplayBodies ==
    { <<>>,
      <<[mimeType |-> "text/plain", text |-> "q=1"]>>,
      <<[mimeType |-> "application/json", text |-> "{\"a\": 1}"]>> }

ReplayEntry(method, request_headers, post) ==
    [request |-> [method |-> method, url |-> "http://h/api/items/1",
                  headers |-> request_headers, queryString |-> <<>>]
                 @@ (IF post # <<>> THEN [postData |-> post[1]] ELSE EmptyDict),
     response |-> [status |-> 200,
                   headers |-> <<Header("Content-Type", "application/json")>>]]

\* commands a caller writes by hand
WrittenCommands ==
    { "",
      "curl http://h/api/items/1",
      "curl -H \"Accept: */*\" -X delete 'http://h/api/items/1'",
      "curl -X PATCH http://h/api/items/1",
      "curl 'http://h/api/items/1" }

NoCommand == [curl_command |-> ""]

InitReplay ==
    /\ \/ /\ \E m \in ReplayMethods, h \in ReplayHeaders, b \in ReplayBodies :
                api_requests = process_har_file(HarDocument(<<ReplayEntry(m, h, b)>>)).value
          /\ request = NoCommand
       \/ /\ api_requests = <<>>
          /\ \E c \in WrittenCommands : request = [curl_command |-> c]
    /\ session_storage = EmptyDict
    /\ response = NoResponse
    /\ result = NoResult
    /\ description = ""
    /\ llm_reply = <<>>
    /\ llm_calls = 0

\* generate_curl_command for the record
GenerateCurlCommand ==
    /\ api_requests # <<>>
    /\ request = NoCommand
    /\ request' = [curl_command |-> generate_curl_command(api_requests[1])]
    /\ UNCHANGED <<session_storage, response, api_requests, description, result,
                   llm_reply, llm_calls>>

\* POST /api/test with the command
TestApi ==
    /\ response = NoResponse
    /\ api_requests = <<>> \/ request # NoCommand
    /\ \E answers \in BOOLEAN :
       \E text \in HttpExceptionTexts(ParsedMethod(shlex_split(request.curl_command).parts)) :
          /\ response' = test_api(request.curl_command, answers, text).response
          /\ result' = test_api(request.curl_command, answers, text).result
    /\ UNCHANGED <<request, session_storage, api_requests, description, llm_reply,
                   llm_calls>>

NextReplay == GenerateCurlCommand \/ TestApi

SpecReplay == InitReplay /\ [][NextReplay]_vars

\* the test endpoint has handled the command generated for the record
Replayed == response # NoResponse /\ api_requests # <<>>

\* the header is written by the generator and read by the parser
Replayable(name) ==
    /\ lower(name) \notin SkippedHeaders \cup {"accept-encoding"}
    /\ ~StartsWith(name, ":")

\* C28: for every request record, parsing the command that
\* generate_curl_command produced for it with the parser of the test endpoint
\* recovers the record's URL, its method and its headers outside the
\* denylists, and the URL the endpoint sends to is the record's URL, also
\* when the command carries -X, -H or -d arguments after the URL.
C28_ReplayRoundTrip ==
    Replayed =>
        /\ result.exc \in {"none", "HTTPError", "HTTPException"}
        /\ result.url = api_requests[1].url
        /\ result.method = api_requests[1].method
        /\ \A name \in DOMAIN api_requests[1].headers :
              Replayable(name) =>
                  /\ name \in DOMAIN result.headers
                  /\ result.headers[name] = api_requests[1].headers[name]

\* the test endpoint has handled a command whose method it does not support
Unsupported ==
    /\ response # NoResponse
    /\ result.exc \notin {"ValueError", "IndexError"}
    /\ upper(result.method) \notin SupportedMethods

\* C29: for a command whose method is none of GET, POST, PUT, DELETE the
\* test endpoint issues no network request and its caller receives the 400
\* 'Unsupported HTTP method' error, not a 500 execution error.
C29_UnsupportedMethodIs400 ==
    Unsupported =>
        /\ ~result.issued
        /\ response.status = 400
        /\ response.detail = "Unsupported HTTP method: " \o result.method

=============================================================================
